---- MODULE Spec2Model ----
(***************************************************************************)
(* PDF text extractor: the PDFViewer component, the page-by-page           *)
(* processors it mounts (PDFProcessor with OCR fallback, the legacy        *)
(* PDFProcessor without OCR, EnhancedPDFProcessor with the intermediate    *)
(* representation) and the clustering functions they call.                 *)
(*                                                                         *)
(* Units.  Percentage geometry (PDFProcessor) is kept in tenths of a       *)
(* percent, normalized geometry (EnhancedPDFProcessor) in thousandths,     *)
(* progress in 1/PScale of a percent, so that every threshold of the       *)
(* source is an integer.  Text is a sequence of one-character strings.     *)
(***************************************************************************)
EXTENDS Integers, Sequences, FiniteSets, TLC

VARIABLES
  app,            \* which application build: "yo" (part_003 viewer) or "main" (part_001 viewer)
  file,           \* PDFViewer: a file is selected
  pages,          \* PDFViewer: the processed page list
  currentPage,    \* PDFViewer
  isProcessing,   \* PDFViewer
  progress,       \* PDFViewer
  error,          \* PDFViewer: "" or the kind of message shown
  advancedMode,   \* PDFViewer (main build)
  extractionResult, \* PDFViewer (main build): <<>> for null, or <<the ExtractionResult>>
  numPages,       \* processor state
  currentProcessingPage, \* processor state
  allPages,       \* processor state
  irPages,        \* processor state (EnhancedPDFProcessor)
  pc,             \* where the mounted processor is waiting
  cb,             \* the running onPageLoadSuccess call: its closure and locals
  hist,           \* history of the current run (what was called, with what)
  labPc,          \* function-level specifications: position
  labIn,          \* function-level specifications: the input objects
  labOut          \* function-level specifications: the results so far

viewerVars == <<app, file, pages, currentPage, isProcessing, progress, error,
                advancedMode, extractionResult>>
procVars == <<numPages, currentProcessingPage, allPages, irPages, pc, cb>>
labVars == <<labPc, labIn, labOut>>
vars == <<viewerVars, procVars, hist, labVars>>

(* ---- bounds of the model ---- *)
MaxPages == 3
MaxTokens == 2
MaxWords == 3

(* ---- arithmetic helpers ---- *)
Abs(n) == IF n < 0 THEN -n ELSE n
Min(a, b) == IF a <= b THEN a ELSE b
Max(a, b) == IF a >= b THEN a ELSE b

RECURSIVE Fact(_)
Fact(n) == IF n <= 1 THEN 1 ELSE n * Fact(n - 1)

RECURSIVE SumSeq(_)
SumSeq(s) == IF s = <<>> THEN 0 ELSE Head(s) + SumSeq(Tail(s))

RECURSIVE MinSeq(_)
MinSeq(s) == IF Len(s) = 1 THEN s[1] ELSE Min(s[1], MinSeq(Tail(s)))

RECURSIVE MaxSeq(_)
MaxSeq(s) == IF Len(s) = 1 THEN s[1] ELSE Max(s[1], MaxSeq(Tail(s)))

RECURSIVE Flatten(_)
Flatten(ss) == IF ss = <<>> THEN <<>> ELSE Head(ss) \o Flatten(Tail(ss))

Last(s) == s[Len(s)]

(* ---- text: String.prototype.trim, /\s+/g, the character classes ---- *)
Whitespace == {" ", "\n"}
Punctuation == {".", ",", "!", "?", ";", ":", "(", ")", "-"}
WordChars == {"a","b","c","d","e","f","g","h","i","j","k","l","m","n","o","p",
              "q","r","s","t","u","v","w","x","y","z",
              "A","B","C","D","E","F","G","H","I","J","K","L","M","N","O","P",
              "Q","R","S","T","U","V","W","X","Y","Z",
              "0","1","2","3","4","5","6","7","8","9","_"}

RECURSIVE TrimStart(_)
TrimStart(s) ==
  IF s = <<>> THEN s
  ELSE IF Head(s) \in Whitespace THEN TrimStart(Tail(s)) ELSE s

RECURSIVE TrimEnd(_)
TrimEnd(s) ==
  IF s = <<>> THEN s
  ELSE IF Last(s) \in Whitespace THEN TrimEnd(SubSeq(s, 1, Len(s) - 1)) ELSE s

Trim(s) == TrimEnd(TrimStart(s))

\* text.replace(/\s+/g, ' ')
RECURSIVE CollapseWhitespace(_)
CollapseWhitespace(s) ==
  IF s = <<>> THEN s
  ELSE IF Head(s) \in Whitespace
       THEN <<" ">> \o CollapseWhitespace(TrimStart(s))
       ELSE <<Head(s)>> \o CollapseWhitespace(Tail(s))

\* /[^\w\s.,!?;:()-]/.test(text)
HasSpecialChar(text) ==
  \E i \in 1..Len(text) : text[i] \notin (WordChars \cup Whitespace \cup Punctuation)

Rep(c, n) == [i \in 1..n |-> c]

RECURSIVE JoinWith(_, _)
JoinWith(texts, sep) ==
  IF texts = <<>> THEN <<>>
  ELSE IF Len(texts) = 1 THEN texts[1]
  ELSE texts[1] \o sep \o JoinWith(Tail(texts), sep)

(* ---- Array.prototype.sort ---- *)
\* The comparators the source passes to sort, by name.
SameLineSortTolerance == 8        \* 0.8 percent
LegacySortTolerance == 10         \* 1 percent
WordSortTolerance == 10           \* 0.01 normalized

Compare(kind, a, b) ==
  CASE kind = "pageNumber" -> a.pageNumber - b.pageNumber
    [] kind = "chunkPosition" ->
         IF Abs(a.geometry.y - b.geometry.y) < SameLineSortTolerance
         THEN a.geometry.x - b.geometry.x
         ELSE a.geometry.y - b.geometry.y
    [] kind = "legacyChunkPosition" ->
         IF Abs(a.geometry.y - b.geometry.y) < LegacySortTolerance
         THEN a.geometry.x - b.geometry.x
         ELSE a.geometry.y - b.geometry.y
    [] kind = "wordPosition" ->
         IF Abs(a.bbox.y - b.bbox.y) < WordSortTolerance
         THEN a.bbox.x - b.bbox.x
         ELSE a.bbox.y - b.bbox.y

\* A short array is sorted by stable insertion: each element moves left past the
\* elements the comparator puts after it.
RECURSIVE InsertSorted(_, _, _)
InsertSorted(sorted, e, kind) ==
  IF sorted = <<>> THEN <<e>>
  ELSE IF Compare(kind, Last(sorted), e) > 0
       THEN Append(InsertSorted(SubSeq(sorted, 1, Len(sorted) - 1), e, kind), Last(sorted))
       ELSE Append(sorted, e)

RECURSIVE SortBy(_, _)
SortBy(s, kind) ==
  IF s = <<>> THEN <<>>
  ELSE InsertSorted(SortBy(SubSeq(s, 1, Len(s) - 1), kind), Last(s), kind)

(* ======================================================================= *)
(* PDFProcessor (pdf-processor.tsx): the functions of the component        *)
(* ======================================================================= *)
PercentMax == 1000                \* 100 percent
MinNativeChunks == 10
MinAvgTextLength == 3
LongWordLength == 20
ManyChunks == 50
MinOcrConfidence == 30
LineThreshold == 12               \* 1.2 percent
WordThreshold == 30               \* 3 percent
MaxGapThreshold == 150            \* 15 percent
FontSizeTolerance == 5            \* 0.5 percent
SeparatorGap == 10                \* 1 percent
MaxChunkTextLength == 50
MaxGroupTextLength == 200
MinValidSize == 1                 \* 0.1 percent
MaxMergedTextLength == 500

\* The bounds test of token ingestion, the same for native items and OCR boxes.
InPage(x, y, w, h) ==
  /\ x >= 0 /\ y >= 0 /\ w > 0 /\ h > 0
  /\ x < PercentMax /\ y < PercentMax
  /\ x + w <= PercentMax /\ y + h <= PercentMax

\* textContent.items.forEach: an item is [str, x, y, w, h] with x, y, w, h the
\* percentages the source computes from item.transform, item.width, item.height
\* and the viewport (w = 0 stands for item.width = 0, h = 0 for item.height = 0).
NativeItemKept(item) ==
  /\ Len(Trim(item.str)) > 0
  /\ item.w # 0 /\ item.h # 0
  /\ InPage(item.x, item.y, item.w, item.h)

ExtractNativeChunks(items, pageNum, tag) ==
  LET kept == SelectSeq(items, NativeItemKept)
  IN [i \in 1..Len(kept) |->
        [id |-> <<"page", pageNum, tag, i - 1>>,
         text |-> Trim(kept[i].str),
         pageNumber |-> pageNum,
         geometry |-> [x |-> kept[i].x, y |-> kept[i].y, w |-> kept[i].w, h |-> kept[i].h]]]

TextLengths(chunks) == [i \in 1..Len(chunks) |-> Len(chunks[i].text)]

shouldUseOCRFromManyChunks(pdfChunks) ==
  IF Len(pdfChunks) = 0 THEN TRUE
  ELSE LET total == SumSeq(TextLengths(pdfChunks))
           hasLongWords == \E i \in 1..Len(pdfChunks) : Len(pdfChunks[i].text) > LongWordLength
           hasSpecialChars == \E i \in 1..Len(pdfChunks) : HasSpecialChar(pdfChunks[i].text)
       IN \/ total < MinAvgTextLength * Len(pdfChunks)
          \/ (~hasLongWords /\ Len(pdfChunks) >= ManyChunks)
          \/ hasSpecialChars

shouldUseOCR(pdfChunks) ==
  IF Len(pdfChunks) = 0 THEN TRUE
  ELSE LET total == SumSeq(TextLengths(pdfChunks))
           hasLongWords == \E i \in 1..Len(pdfChunks) : Len(pdfChunks[i].text) > LongWordLength
           hasSpecialChars == \E i \in 1..Len(pdfChunks) : HasSpecialChar(pdfChunks[i].text)
       IN \/ total < MinAvgTextLength * Len(pdfChunks)
          \/ (~hasLongWords /\ Len(pdfChunks) > ManyChunks)
          \/ hasSpecialChars

\* ocrAvg > pdfAvg * 1.2  and  ocr.length > pdf.length * 1.5, cross-multiplied.
hasHigherQuality(ocrChunks, pdfChunks) ==
  IF Len(ocrChunks) = 0 THEN FALSE
  ELSE IF Len(pdfChunks) = 0 THEN TRUE
  ELSE \/ 10 * SumSeq(TextLengths(ocrChunks)) * Len(pdfChunks)
            > 12 * SumSeq(TextLengths(pdfChunks)) * Len(ocrChunks)
       \/ 2 * Len(ocrChunks) > 3 * Len(pdfChunks)

\* if (pdfTextChunks.length < 10 || shouldUseOCR(pdfTextChunks))
OcrWanted(pdfChunks) == Len(pdfChunks) < MinNativeChunks \/ shouldUseOCR(pdfChunks)

ChooseFinalAlwaysOcr(ocrChunks, pdfChunks) == ocrChunks

\* if (ocrChunks.length > pdfTextChunks.length || hasHigherQuality(...)) finalTextChunks = ocrChunks
ChooseFinal(ocrChunks, pdfChunks) ==
  IF Len(ocrChunks) > Len(pdfChunks) \/ hasHigherQuality(ocrChunks, pdfChunks)
  THEN ocrChunks ELSE pdfChunks

\* performOCR, after worker.recognize resolved with data = [text, words, lines]:
\* a word or line is [text, confidence, hasBBox, x, y, w, h], the box already in
\* percent of the image.
OcrBoxKept(b) ==
  /\ Len(Trim(b.text)) > 0
  /\ b.confidence > MinOcrConfidence
  /\ b.hasBBox
  /\ InPage(b.x, b.y, b.w, b.h)

OcrBoxChunks(boxes, pageNum, tag) ==
  LET kept == SelectSeq(boxes, OcrBoxKept)
  IN [i \in 1..Len(kept) |->
        [id |-> <<"page", pageNum, tag, i - 1>>,
         text |-> Trim(kept[i].text),
         pageNumber |-> pageNum,
         geometry |-> [x |-> kept[i].x, y |-> kept[i].y, w |-> kept[i].w, h |-> kept[i].h]]]

OcrChunksMixed(data, pageNum) ==
  IF Len(Trim(data.text)) = 0 THEN <<>>
  ELSE OcrBoxChunks(data.words, pageNum, "ocr") \o OcrBoxChunks(data.lines, pageNum, "ocr-line")

OcrChunksOf(data, pageNum) ==
  IF Len(Trim(data.text)) = 0 THEN <<>>
  ELSE LET wordChunks == OcrBoxChunks(data.words, pageNum, "ocr")
           lineChunks == OcrBoxChunks(data.lines, pageNum, "ocr-line")
       IN IF Len(wordChunks) > 0 THEN wordChunks
          ELSE IF Len(lineChunks) > 0 THEN lineChunks
          ELSE <<[id |-> <<"page", pageNum, "ocr-full", 0>>,
                  text |-> Trim(data.text),
                  pageNumber |-> pageNum,
                  geometry |-> [x |-> 50, y |-> 50, w |-> 900, h |-> 900]]>>

\* performOCR as a whole.  env.kind is what the OCR engine does:
\*   "createWorkerRejects"  - createWorker rejects, outside the try: the call rejects
\*   "recognizeRejects"     - setParameters, recognize or the image load rejects:
\*                            caught, the call resolves with []
\*   "terminateRejects"     - worker.terminate() rejects in the finally: the call rejects
\*   "ok"                   - resolves with the chunks of env.data
\* The result is [rejected, chunks].
performOCR(env, pageNum) ==
  CASE env.kind = "createWorkerRejects" -> [rejected |-> TRUE, chunks |-> <<>>]
    [] env.kind = "terminateRejects" -> [rejected |-> TRUE, chunks |-> <<>>]
    [] env.kind = "recognizeRejects" -> [rejected |-> FALSE, chunks |-> <<>>]
    [] env.kind = "ok" -> [rejected |-> FALSE, chunks |-> OcrChunksOf(env.data, pageNum)]

(* ---- groupNearbyTextChunks ---- *)
\* The function works on objects.  `grouped.push({ ...chunk })` copies id, text
\* and pageNumber but shares the chunk's geometry object, so the merge writes
\* through to the input token that opened the group.  geo is the heap of the
\* input tokens' geometry objects (by position in the input array); a group is
\* [id, text, pageNumber, ref] with ref the geometry object it shares.
WithRefs(chunks) ==
  [i \in 1..Len(chunks) |->
     [id |-> chunks[i].id, text |-> chunks[i].text, pageNumber |-> chunks[i].pageNumber,
      geometry |-> chunks[i].geometry, ref |-> i]]

GroupOf(chunk) ==
  [id |-> chunk.id, text |-> chunk.text, pageNumber |-> chunk.pageNumber, ref |-> chunk.ref]

\* One iteration of sortedChunks.forEach for index > 0.
MergeStep(chunk, geo, grouped) ==
  LET lastGroup == Last(grouped)
      lg == geo[lastGroup.ref]
      cg == geo[chunk.ref]
      verticalDistance == Abs(cg.y - lg.y)
      horizontalDistance == cg.x - (lg.x + lg.w)
      onSameLine == verticalDistance < LineThreshold
      closeHorizontally == horizontalDistance >= 0 /\ horizontalDistance < WordThreshold
      notTooFar == horizontalDistance < MaxGapThreshold
      sameFontSize == Abs(cg.h - lg.h) < FontSizeTolerance
      reasonableTextLength == /\ Len(chunk.text) < MaxChunkTextLength
                              /\ Len(lastGroup.text) < MaxGroupTextLength
  IN IF onSameLine /\ closeHorizontally /\ notTooFar /\ sameFontSize /\ reasonableTextLength
     THEN LET separator == IF horizontalDistance > SeparatorGap THEN <<" ">> ELSE <<>>
              w1 == cg.x + cg.w - lg.x
              h1 == Max(lg.h, cg.h)
              minY == Min(lg.y, cg.y)
              maxH == Max(lg.y + h1, cg.y + cg.h) - minY
          IN [geo |-> [geo EXCEPT ![lastGroup.ref] = [x |-> lg.x, y |-> minY, w |-> w1, h |-> maxH]],
              grouped |-> [grouped EXCEPT ![Len(grouped)].text = @ \o separator \o chunk.text]]
     ELSE [geo |-> geo, grouped |-> Append(grouped, GroupOf(chunk))]

RECURSIVE GroupPass(_, _, _, _)
GroupPass(sortedChunks, index, geo, grouped) ==
  IF index > Len(sortedChunks) THEN [geo |-> geo, grouped |-> grouped]
  ELSE IF index = 1
       THEN GroupPass(sortedChunks, 2, geo, <<GroupOf(sortedChunks[1])>>)
       ELSE LET st == MergeStep(sortedChunks[index], geo, grouped)
            IN GroupPass(sortedChunks, index + 1, st.geo, st.grouped)

\* The run of groupNearbyTextChunks on an array of token objects: [result, tokens],
\* the returned chunks and the input array as the call leaves it.
GroupNearbyTextChunksRun(chunks) ==
  IF Len(chunks) = 0 THEN [result |-> <<>>, tokens |-> chunks]
  ELSE LET geo0 == [i \in 1..Len(chunks) |-> chunks[i].geometry]
           st == GroupPass(SortBy(WithRefs(chunks), "chunkPosition"), 1, geo0, <<>>)
           valid(g) == /\ st.geo[g.ref].w > MinValidSize /\ st.geo[g.ref].h > MinValidSize
                       /\ Len(Trim(g.text)) > 0
                       /\ Len(g.text) < MaxMergedTextLength
           kept == SelectSeq(st.grouped, valid)
       IN [result |-> [i \in 1..Len(kept) |->
                         [id |-> kept[i].id,
                          text |-> Trim(CollapseWhitespace(kept[i].text)),
                          pageNumber |-> kept[i].pageNumber,
                          geometry |-> st.geo[kept[i].ref]]],
           tokens |-> [i \in 1..Len(chunks) |-> [chunks[i] EXCEPT !.geometry = st.geo[i]]]]

groupNearbyTextChunks(chunks) == GroupNearbyTextChunksRun(chunks).result

(* ======================================================================= *)
(* Legacy PDFProcessor (native text only): groupNearbyTextChunks           *)
(* ======================================================================= *)
LegacyLineThreshold == 20         \* 2 percent
LegacyWordThreshold == 50         \* 5 percent

LegacyMergeStep(chunk, geo, grouped) ==
  LET lastGroup == Last(grouped)
      lg == geo[lastGroup.ref]
      cg == geo[chunk.ref]
      verticalDistance == Abs(cg.y - lg.y)
      horizontalDistance == cg.x - (lg.x + lg.w)
      onSameLine == verticalDistance < LegacyLineThreshold
      closeHorizontally == horizontalDistance >= 0 /\ horizontalDistance < LegacyWordThreshold
  IN IF onSameLine /\ closeHorizontally
     THEN [geo |-> [geo EXCEPT ![lastGroup.ref] =
                      [x |-> lg.x, y |-> lg.y, w |-> cg.x + cg.w - lg.x, h |-> Max(lg.h, cg.h)]],
           grouped |-> [grouped EXCEPT ![Len(grouped)].text = @ \o <<" ">> \o chunk.text]]
     ELSE [geo |-> geo, grouped |-> Append(grouped, GroupOf(chunk))]

RECURSIVE LegacyGroupPass(_, _, _, _)
LegacyGroupPass(sortedChunks, index, geo, grouped) ==
  IF index > Len(sortedChunks) THEN [geo |-> geo, grouped |-> grouped]
  ELSE IF index = 1
       THEN LegacyGroupPass(sortedChunks, 2, geo, <<GroupOf(sortedChunks[1])>>)
       ELSE LET st == LegacyMergeStep(sortedChunks[index], geo, grouped)
            IN LegacyGroupPass(sortedChunks, index + 1, st.geo, st.grouped)

LegacyGroupNearbyTextChunksRun(chunks) ==
  IF Len(chunks) = 0 THEN [result |-> <<>>, tokens |-> chunks]
  ELSE LET geo0 == [i \in 1..Len(chunks) |-> chunks[i].geometry]
           st == LegacyGroupPass(SortBy(WithRefs(chunks), "legacyChunkPosition"), 1, geo0, <<>>)
       IN [result |-> [i \in 1..Len(st.grouped) |->
                         [id |-> st.grouped[i].id,
                          text |-> st.grouped[i].text,
                          pageNumber |-> st.grouped[i].pageNumber,
                          geometry |-> st.geo[st.grouped[i].ref]]],
           tokens |-> [i \in 1..Len(chunks) |-> [chunks[i] EXCEPT !.geometry = st.geo[i]]]]

legacyGroupNearbyTextChunks(chunks) == LegacyGroupNearbyTextChunksRun(chunks).result

(* ======================================================================= *)
(* EnhancedPDFProcessor: the functions of the component                    *)
(* ======================================================================= *)
SameLineTolerance == 20           \* 0.02 normalized
BlockBreakThreshold == 30         \* 0.03 normalized
HeaderLimit == 200                \* 0.2 normalized
FooterLimit == 800                \* 0.8 normalized

calculateBoundingBox(bboxes) ==
  IF Len(bboxes) = 0 THEN [x |-> 0, y |-> 0, width |-> 0, height |-> 0]
  ELSE LET minX == MinSeq([i \in 1..Len(bboxes) |-> bboxes[i].x])
           minY == MinSeq([i \in 1..Len(bboxes) |-> bboxes[i].y])
           maxX == MaxSeq([i \in 1..Len(bboxes) |-> bboxes[i].x + bboxes[i].width])
           maxY == MaxSeq([i \in 1..Len(bboxes) |-> bboxes[i].y + bboxes[i].height])
       IN [x |-> minX, y |-> minY, width |-> maxX - minX, height |-> maxY - minY]

\* The loop of groupWordsIntoLines over sortedWords[i..], with the lines closed
\* so far and the open line.
RECURSIVE WordLinesLoop(_, _, _, _)
WordLinesLoop(sortedWords, i, lines, currentLine) ==
  IF i > Len(sortedWords) THEN Append(lines, currentLine)
  ELSE LET currentWord == sortedWords[i]
           lastWordInLine == Last(currentLine)
       IN IF Abs(currentWord.bbox.y - lastWordInLine.bbox.y) < SameLineTolerance
          THEN WordLinesLoop(sortedWords, i + 1, lines, Append(currentLine, currentWord))
          ELSE WordLinesLoop(sortedWords, i + 1, Append(lines, currentLine), <<currentWord>>)

\* groupWordsIntoLines without the push of the line still open after the loop.
groupWordsIntoLinesOpenLineLost(words) ==
  IF Len(words) = 0 THEN <<>>
  ELSE LET sortedWords == SortBy(words, "wordPosition")
           lines == WordLinesLoop(sortedWords, 2, <<>>, <<sortedWords[1]>>)
       IN SubSeq(lines, 1, Len(lines) - 1)

groupWordsIntoLines(words) ==
  IF Len(words) = 0 THEN <<>>
  ELSE LET sortedWords == SortBy(words, "wordPosition")
       IN WordLinesLoop(sortedWords, 2, <<>>, <<sortedWords[1]>>)

BlockBreakAtOrAbove(verticalGap) == verticalGap >= BlockBreakThreshold

\* if (verticalGap > 0.03)
BlockBreak(verticalGap) == verticalGap > BlockBreakThreshold

RECURSIVE LineBlocksLoop(_, _, _, _)
LineBlocksLoop(lines, i, blocks, currentBlock) ==
  IF i > Len(lines) THEN Append(blocks, currentBlock)
  ELSE LET currentLine == lines[i]
           lastLineInBlock == Last(currentBlock)
           verticalGap == currentLine.bbox.y - (lastLineInBlock.bbox.y + lastLineInBlock.bbox.height)
       IN IF BlockBreak(verticalGap)
          THEN LineBlocksLoop(lines, i + 1, Append(blocks, currentBlock), <<currentLine>>)
          ELSE LineBlocksLoop(lines, i + 1, blocks, Append(currentBlock, currentLine))

groupLinesIntoBlocks(lines) ==
  IF Len(lines) = 0 THEN <<>>
  ELSE LineBlocksLoop(lines, 2, <<>>, <<lines[1]>>)

\* data.words.forEach: an OCR word is [text, confidence, hasBBox, x, y, w, h], the
\* box already divided by the canvas size (thousandths); confidence is 0..100
\* and the Word keeps it in hundredths.
EnhancedWordKept(w) == Len(Trim(w.text)) > 0 /\ w.hasBBox

WordsOf(ocrWords) ==
  LET kept == SelectSeq(ocrWords, EnhancedWordKept)
  IN [i \in 1..Len(kept) |->
        [text |-> kept[i].text,
         bbox |-> [x |-> kept[i].x, y |-> kept[i].y, width |-> kept[i].w, height |-> kept[i].h],
         confidence |-> kept[i].confidence]]

\* legacyChunk: id is nanoid(), a fresh identifier for every chunk.
LegacyChunksOf(ocrWords, pageNumber) ==
  LET kept == SelectSeq(ocrWords, EnhancedWordKept)
  IN [i \in 1..Len(kept) |->
        [id |-> <<"nanoid", pageNumber, i>>,
         text |-> kept[i].text,
         pageNumber |-> pageNumber,
         geometry |-> [x |-> kept[i].x, y |-> kept[i].y, w |-> kept[i].w, h |-> kept[i].h]]]

LinesOf(words) ==
  LET groupedLines == groupWordsIntoLines(words)
  IN [lineIndex \in 1..Len(groupedLines) |->
        [id |-> <<"line", lineIndex - 1>>,
         words |-> groupedLines[lineIndex],
         bbox |-> calculateBoundingBox(
                    [k \in 1..Len(groupedLines[lineIndex]) |-> groupedLines[lineIndex][k].bbox]),
         readingOrder |-> lineIndex - 1]]

RECURSIVE ProdSeq(_)
ProdSeq(s) == IF s = <<>> THEN 1 ELSE Head(s) * ProdSeq(Tail(s))

\* The mean over the lines of the mean word confidence, as the fraction num/den.
BlockConfidence(blockLines) ==
  LET counts == [l \in 1..Len(blockLines) |-> Len(blockLines[l].words)]
      sums == [l \in 1..Len(blockLines) |->
                 SumSeq([k \in 1..Len(blockLines[l].words) |-> blockLines[l].words[k].confidence])]
      all == ProdSeq(counts)
  IN [num |-> SumSeq([l \in 1..Len(blockLines) |-> sums[l] * (all \div counts[l])]),
      den |-> 100 * Len(blockLines) * all]

\* id: `block-${blockIndex}`
BlockId(pageNumber, blockIndex) == <<"block", blockIndex>>

BlocksOf(lines, pageNumber) ==
  LET groupedBlocks == groupLinesIntoBlocks(lines)
  IN [blockIndex \in 1..Len(groupedBlocks) |->
        [id |-> BlockId(pageNumber, blockIndex - 1),
         type |-> "paragraph",
         bbox |-> calculateBoundingBox(
                    [k \in 1..Len(groupedBlocks[blockIndex]) |-> groupedBlocks[blockIndex][k].bbox]),
         lines |-> groupedBlocks[blockIndex],
         confidence |-> BlockConfidence(groupedBlocks[blockIndex]),
         readingOrder |-> blockIndex - 1]]

\* [...blocks].sort((a, b) => a.bbox.y - b.bbox.y)
RECURSIVE InsertByTop(_, _)
InsertByTop(sorted, b) ==
  IF sorted = <<>> THEN <<b>>
  ELSE IF Last(sorted).bbox.y - b.bbox.y > 0
       THEN Append(InsertByTop(SubSeq(sorted, 1, Len(sorted) - 1), b), Last(sorted))
       ELSE Append(sorted, b)

RECURSIVE SortByTop(_)
SortByTop(blocks) ==
  IF blocks = <<>> THEN <<>>
  ELSE InsertByTop(SortByTop(SubSeq(blocks, 1, Len(blocks) - 1)), Last(blocks))

InMainInclusive(b) == b.bbox.y >= HeaderLimit /\ b.bbox.y + b.bbox.height <= FooterLimit

InMain(b) == b.bbox.y > HeaderLimit /\ b.bbox.y + b.bbox.height < FooterLimit

generateSemanticRegions(blocks) ==
  IF Len(blocks) = 0 THEN <<>>
  ELSE LET sortedBlocks == SortByTop(blocks)
           topBlock == sortedBlocks[1]
           bottomBlock == Last(sortedBlocks)
           mainBlocks == SelectSeq(sortedBlocks, InMain)
           header == IF topBlock.bbox.y < HeaderLimit
                     THEN <<[id |-> "semantic-header-0", type |-> "header", bbox |-> topBlock.bbox,
                             confidence |-> 70, blockIds |-> <<topBlock.id>>]>>
                     ELSE <<>>
           footer == IF bottomBlock.bbox.y + bottomBlock.bbox.height > FooterLimit
                     THEN <<[id |-> "semantic-footer-0", type |-> "footer", bbox |-> bottomBlock.bbox,
                             confidence |-> 70, blockIds |-> <<bottomBlock.id>>]>>
                     ELSE <<>>
           main == IF Len(mainBlocks) > 0
                   THEN <<[id |-> "semantic-main-0", type |-> "main_content",
                           bbox |-> calculateBoundingBox(
                                      [k \in 1..Len(mainBlocks) |-> mainBlocks[k].bbox]),
                           confidence |-> 80,
                           blockIds |-> [k \in 1..Len(mainBlocks) |-> mainBlocks[k].id]]>>
                   ELSE <<>>
       IN header \o footer \o main

\* performEnhancedOCR.  env.kind is what the OCR engine does: "createWorkerRejects",
\* "recognizeRejects" and "terminateRejects" all reject the call (try/finally, no
\* catch); "ok" resolves with the page built from env.words (env.hasWords = FALSE
\* stands for data.words being absent).  The result is [rejected, legacyChunks, irPage].
performEnhancedOCR(env, pageNumber) ==
  IF env.kind # "ok" THEN [rejected |-> TRUE, legacyChunks |-> <<>>, irPage |-> "none"]
  ELSE LET ocrWords == IF env.hasWords THEN env.words ELSE <<>>
           words == WordsOf(ocrWords)
           lines == LinesOf(words)
           blocks == BlocksOf(lines, pageNumber)
       IN [rejected |-> FALSE,
           legacyChunks |-> LegacyChunksOf(ocrWords, pageNumber),
           irPage |-> [pageNumber |-> pageNumber,
                       words |-> words,
                       lines |-> lines,
                       blocks |-> blocks,
                       coverage |-> [pdfNativeWords |-> 0, ocrWords |-> Len(words),
                                     reconciledWords |-> Len(words), coveragePercent |-> 95],
                       semanticRegions |-> generateSemanticRegions(blocks)]]

\* `mapping` is an object literal, so mapping[blockType] also finds what the
\* object inherits from Object.prototype: for these keys the lookup yields a
\* function (for __proto__ the prototype object), which is truthy.
ObjectPrototypeKeys ==
  {"constructor", "toString", "toLocaleString", "valueOf", "hasOwnProperty",
   "isPrototypeOf", "propertyIsEnumerable", "__proto__"}

mapBlockTypeToChunkType(blockType) ==
  CASE blockType \in ObjectPrototypeKeys -> "Object.prototype." \o blockType
    [] blockType = "paragraph" -> "text"
    [] blockType = "heading" -> "title"
    [] blockType = "list" -> "list"
    [] blockType = "table" -> "table"
    [] blockType = "image" -> "figure"
    [] blockType = "line" -> "text"
    [] blockType = "footer" -> "footer"
    [] blockType = "header" -> "header"
    [] blockType = "form_field" -> "form_field"
    [] blockType = "signature" -> "figure"
    [] blockType = "logo" -> "figure"
    [] blockType = "caption" -> "caption"
    [] OTHER -> "text"

BlockText(block) ==
  JoinWith([l \in 1..Len(block.lines) |->
              JoinWith([k \in 1..Len(block.lines[l].words) |-> block.lines[l].words[k].text],
                       <<" ">>)],
           <<"\n">>)

ChunkOfBlockOneBasedPage(page, block) ==
  [chunk_id |-> block.id,
   text |-> Trim(BlockText(block)),
   chunk_type |-> mapBlockTypeToChunkType(block.type),
   grounding |-> <<[page |-> page.pageNumber,
                    box |-> [l |-> block.bbox.x, t |-> block.bbox.y,
                             r |-> block.bbox.x + block.bbox.width,
                             b |-> block.bbox.y + block.bbox.height]]>>,
   confidence |-> block.confidence]

ChunkOfBlock(page, block) ==
  [chunk_id |-> block.id,
   text |-> Trim(BlockText(block)),
   chunk_type |-> mapBlockTypeToChunkType(block.type),
   grounding |-> <<[page |-> page.pageNumber - 1,
                    box |-> [l |-> block.bbox.x, t |-> block.bbox.y,
                             r |-> block.bbox.x + block.bbox.width,
                             b |-> block.bbox.y + block.bbox.height]]>>,
   confidence |-> block.confidence]

PageChunks(page) ==
  LET hasText(block) == Len(Trim(BlockText(block))) > 0
      kept == SelectSeq(page.blocks, hasText)
  IN [i \in 1..Len(kept) |-> ChunkOfBlock(page, kept[i])]

generateTextChunks(pagesIR) ==
  Flatten([p \in 1..Len(pagesIR) |-> PageChunks(pagesIR[p])])

(* ======================================================================= *)
(* The viewer and the processor it mounts                                  *)
(* ======================================================================= *)
\* The processor PDFViewer renders while `file && isProcessing`:
\*   "P" PDFProcessor of pdf-processor.tsx (yo build),
\*   "L" the legacy PDFProcessor and "E" EnhancedPDFProcessor (main build).
Processor ==
  IF app = "yo" THEN "P" ELSE IF advancedMode THEN "E" ELSE "L"

\* Progress is kept in 1/PScale of a percent: 80 / numPages / 6 and
\* 80 / numPages / 4 are then integers for every numPages <= MaxPages.
PScale == 12 * Fact(MaxPages)
Percent(n) == n * PScale

StepsPerPage == IF Processor = "L" THEN 4 ELSE 6

ProgressBaseFromPageNum(pageNum, n) == (pageNum * Percent(80)) \div n + Percent(10)

\* ((pageNum - 1) / numPages) * 80 + 10
ProgressBase(pageNum, n) == ((pageNum - 1) * Percent(80)) \div n + Percent(10)

\* 80 / numPages / 6  (legacy: / 4)
PageProgressStep(n) == Percent(80) \div (n * StepsPerPage)

StepProgress(k) == ProgressBase(cb.pageNum, cb.numPages) + k * PageProgressStep(cb.numPages)

AllPagesDoneOffByOne(updated, n) == Len(updated) = n - 1

\* if (updated.length === numPages)
AllPagesDone(updated, n) == Len(updated) = n

PrependPage(prev, pageData) == <<pageData>> \o prev

\* [...prev, pageData].sort((a, b) => a.pageNumber - b.pageNumber)
AddPageSorted(prev, pageData) == SortBy(Append(prev, pageData), "pageNumber")

PreviousPageOrNext(pageNum) == IF pageNum > 1 THEN pageNum - 1 ELSE pageNum + 1

\* setCurrentProcessingPage(pageNum + 1)
NextPage(pageNum) == pageNum + 1

(* ---- what the environment can supply ---- *)
Txt_abc == <<"a", "b", "c">>
Txt_Hello == <<"H", "e", "l", "l", "o">>
Txt_World == <<"W", "o", "r", "l", "d">>
Txt_Hi == <<"H", "i">>

Item(str, x, y, w, h) == [str |-> str, x |-> x, y |-> y, w |-> w, h |-> h]

\* page.getTextContent(): no items; one good item and one outside the page;
\* ten clean items (enough for OCR to be skipped).
NativeInputs ==
  { <<>>,
    << Item(Txt_Hello, 100, 100, 200, 50), Item(Txt_World, 950, 100, 100, 50) >>,
    [i \in 1..10 |-> Item(Txt_abc, 100, 80 * i, 100, 30)] }

Box(text, confidence, x, y, w, h) ==
  [text |-> text, confidence |-> confidence, hasBBox |-> TRUE,
   x |-> x, y |-> y, w |-> w, h |-> h]

\* worker.recognize(): two good words on one row; a low-confidence word with a
\* usable line.
OcrData ==
  { [text |-> Txt_Hello \o <<" ">> \o Txt_World,
     words |-> << Box(Txt_Hello, 90, 100, 100, 200, 50), Box(Txt_World, 85, 320, 100, 200, 50) >>,
     lines |-> <<>>],
    [text |-> Txt_Hi,
     words |-> << Box(Txt_Hi, 20, 100, 100, 50, 50) >>,
     lines |-> << Box(Txt_Hi, 80, 100, 100, 50, 50) >>] }

OcrFailures == {"createWorkerRejects", "recognizeRejects", "terminateRejects"}

OcrEnvs ==
  { [kind |-> k] : k \in OcrFailures } \cup { [kind |-> "ok", data |-> d] : d \in OcrData }

\* EnhancedPDFProcessor: data.words absent; one word; two words far apart.
EnhancedWordInputs ==
  { << Box(Txt_Hi, 90, 100, 100, 50, 20) >>,
    << Box(Txt_Hello, 90, 100, 100, 200, 20), Box(Txt_World, 80, 100, 500, 200, 20) >> }

EnhancedOcrEnvs ==
  { [kind |-> k] : k \in OcrFailures }
    \cup { [kind |-> "ok", hasWords |-> FALSE, words |-> <<>>] }
    \cup { [kind |-> "ok", hasWords |-> TRUE, words |-> w] : w \in EnhancedWordInputs }

(* ---- state ---- *)
NoCall == [pageNum |-> 0, numPages |-> 0, allPages |-> <<>>, irPages |-> <<>>,
           pdfTextChunks |-> <<>>]

\* The history of a run: the processor mounted, the document's page count, the values passed to
\* onProgressUpdate, how often the OCR function was called per page, the pages
\* whose OCR failed, the cause of the onError call, what was committed per page
\* and what onProcessingComplete received.
NewHist ==
  [processor |-> Processor,
   docPages |-> 0,
   emitted |-> <<>>,
   ocrCalls |-> [p \in 1..MaxPages |-> 0],
   ocrFailed |-> {},
   onErrorCalls |-> 0,
   errCause |-> "none",
   commits |-> <<>>,
   completeCalls |-> 0,
   delivered |-> <<>>,
   deliveredIR |-> <<>>]

\* The application before a file is chosen.
ViewerIdle ==
  /\ file = FALSE
  /\ pages = <<>>
  /\ currentPage = 1
  /\ isProcessing = FALSE
  /\ progress = 0
  /\ error = ""
  /\ advancedMode = FALSE
  /\ extractionResult = <<>>
  /\ numPages = 0
  /\ currentProcessingPage = 0
  /\ allPages = <<>>
  /\ irPages = <<>>
  /\ pc = "unmounted"
  /\ cb = NoCall
  /\ hist = NewHist

Init ==
  /\ app \in {"yo", "main"}
  /\ ViewerIdle
  /\ labPc = "off"
  /\ labIn = <<>>
  /\ labOut = <<>>

\* The processor leaves the tree (isProcessing became false): its state is gone.
Unmount ==
  /\ numPages' = 0
  /\ currentProcessingPage' = 0
  /\ allPages' = <<>>
  /\ irPages' = <<>>
  /\ pc' = "unmounted"
  /\ cb' = NoCall

(* ---- PDFViewer ---- *)
handleFileSelect(valid) ==
  /\ ~file /\ ~isProcessing
  /\ IF valid
     THEN /\ file' = TRUE
          /\ pages' = <<>>
          /\ currentPage' = 1
          /\ error' = ""
          /\ isProcessing' = TRUE
          /\ progress' = 0
          /\ extractionResult' = <<>>
          /\ numPages' = 0
          /\ currentProcessingPage' = 0
          /\ allPages' = <<>>
          /\ irPages' = <<>>
          /\ pc' = "document"
          /\ cb' = NoCall
          /\ hist' = NewHist
     ELSE /\ error' = "Please select a valid PDF file."
          /\ UNCHANGED <<file, pages, currentPage, isProcessing, progress,
                         extractionResult, procVars, hist>>
  /\ UNCHANGED <<app, advancedMode, labVars>>

setAdvancedMode ==
  /\ app = "main" /\ ~isProcessing
  /\ advancedMode' = ~advancedMode
  /\ UNCHANGED <<app, file, pages, currentPage, isProcessing, progress, error,
                 extractionResult, procVars, hist, labVars>>

\* The reset button is part of the success view.
ResetVisible ==
  IF app = "yo" THEN Len(pages) > 0 /\ ~isProcessing ELSE Len(pages) > 0

resetViewer ==
  /\ ResetVisible
  /\ file' = FALSE
  /\ pages' = <<>>
  /\ currentPage' = 1
  /\ error' = ""
  /\ isProcessing' = FALSE
  /\ progress' = 0
  /\ extractionResult' = <<>>
  /\ Unmount
  /\ UNCHANGED <<app, advancedMode, hist, labVars>>

\* The upload card with the file input is rendered only while no file is set.
UploadCardVisible == ~file

\* The user can choose a PDF file: the input is rendered and not disabled.
CanChooseFile == UploadCardVisible /\ ~isProcessing

\* DocumentViewer, TextSearch and the chunk panels are part of the success view.
SuccessViewVisible == ResetVisible

SetCurrentPage(pageNumber) ==
  /\ currentPage' = pageNumber
  /\ UNCHANGED <<app, file, pages, isProcessing, progress, error, advancedMode,
                 extractionResult, procVars, hist, labVars>>

\* The previous-page button: disabled on page 1.
handlePrevPage ==
  /\ SuccessViewVisible
  /\ currentPage > 1
  /\ IF app = "yo"
     THEN SetCurrentPage(IF currentPage - 1 > 1 THEN currentPage - 1 ELSE 1)
     ELSE Len(pages) > 1 /\ SetCurrentPage(currentPage - 1)

\* The next-page button: disabled on the last page.
handleNextPage ==
  /\ SuccessViewVisible
  /\ currentPage < Len(pages)
  /\ IF app = "yo"
     THEN SetCurrentPage(IF currentPage + 1 < Len(pages) THEN currentPage + 1 ELSE Len(pages))
     ELSE Len(pages) > 1 /\ SetCurrentPage(currentPage + 1)

\* The ids of the chunks that TextSearch lists: those of the pages.
PageChunkIds ==
  UNION { { pages[i].textChunks[k].id : k \in 1..Len(pages[i].textChunks) } :
            i \in 1..Len(pages) }

\* pages.find(page => page.textChunks.some(chunk => chunk.id === chunkId)):
\* <<>> for undefined.
FindPageOfChunk(chunkId) ==
  LET hits == { i \in 1..Len(pages) :
                  \E k \in 1..Len(pages[i].textChunks) : pages[i].textChunks[k].id = chunkId }
  IN IF hits = {} THEN <<>>
     ELSE <<pages[CHOOSE i \in hits : \A j \in hits : i <= j]>>

\* A search result is selected, <<id>> with the id of a listed chunk, or the
\* selection is cleared, <<>> for the empty id.
handleChunkSelect(chunkId) ==
  /\ SuccessViewVisible
  /\ LET targetPage == IF chunkId = <<>> THEN <<>> ELSE FindPageOfChunk(chunkId[1])
     IN IF chunkId # <<>> /\ targetPage # <<>> /\ targetPage[1].pageNumber # currentPage
        THEN SetCurrentPage(targetPage[1].pageNumber)
        ELSE SetCurrentPage(currentPage)

\* handleTextChunkClick taking the grounding's zero-based page as the page number.
handleTextChunkClickZeroBased(chunk) ==
  /\ app = "main"
  /\ SuccessViewVisible
  /\ advancedMode /\ extractionResult # <<>>
  /\ IF Len(chunk.grounding) > 0 /\ chunk.grounding[1].page # currentPage
     THEN SetCurrentPage(chunk.grounding[1].page)
     ELSE SetCurrentPage(currentPage)

\* A chunk of the TextChunkHighlighter panel is clicked (advanced view).
handleTextChunkClick(chunk) ==
  /\ app = "main"
  /\ SuccessViewVisible
  /\ advancedMode /\ extractionResult # <<>>
  /\ IF Len(chunk.grounding) > 0 /\ chunk.grounding[1].page + 1 # currentPage
     THEN SetCurrentPage(chunk.grounding[1].page + 1)
     ELSE SetCurrentPage(currentPage)

\* handleError, reached through onError: `cause` stands for the message (which
\* call failed), `emits` are the values the handler passed to onProgressUpdate
\* before it failed, h the history up to the failure.
handleError(cause, emits, h) ==
  /\ error' = cause
  /\ isProcessing' = FALSE
  /\ progress' = 0
  /\ hist' = [h EXCEPT !.emitted = @ \o emits,
                          !.onErrorCalls = @ + 1,
                          !.errCause = cause]
  /\ Unmount
  /\ UNCHANGED <<app, file, pages, currentPage, advancedMode, extractionResult, labVars>>

\* handleProgressUpdate for each value of `emits`, the processor staying mounted.
Progressed(emits) ==
  /\ progress' = Last(emits)
  /\ UNCHANGED <<app, file, pages, currentPage, isProcessing, error, advancedMode,
                 extractionResult, labVars>>

(* ---- the processors ---- *)
onDocumentLoadSuccess(n) ==
  /\ pc = "document"
  /\ numPages' = n
  /\ currentProcessingPage' = 1
  /\ allPages' = <<>>
  /\ irPages' = <<>>
  /\ pc' = "page"
  /\ cb' = NoCall
  /\ hist' = [hist EXCEPT !.docPages = n, !.emitted = @ \o <<Percent(10)>>]
  /\ Progressed(<<Percent(10)>>)

onDocumentLoadError ==
  /\ pc = "document"
  /\ handleError("documentLoad", <<>>, hist)

onPageLoadError ==
  /\ pc = "page"
  /\ handleError("pageLoad", <<>>, hist)

\* onPageLoadSuccess up to `await page.render(...)`.
PageLoadSuccessBegin(contextOk) ==
  /\ pc = "page"
  /\ LET call == [pageNum |-> currentProcessingPage, numPages |-> numPages,
                  allPages |-> allPages, irPages |-> irPages, pdfTextChunks |-> <<>>]
         base == ProgressBase(call.pageNum, call.numPages)
         step == PageProgressStep(call.numPages)
     IN IF contextOk
        THEN /\ cb' = call
             /\ pc' = "render"
             /\ hist' = [hist EXCEPT !.emitted = @ \o <<base + step, base + 2 * step>>]
             /\ Progressed(<<base + step, base + 2 * step>>)
             /\ UNCHANGED <<numPages, currentProcessingPage, allPages, irPages>>
        ELSE handleError("canvasContext", <<base + step>>, hist)

\* The Page element is keyed by currentProcessingPage: a new key in 1..numPages
\* mounts a new Page, which then reports its load once.
PageAfter(newPage) ==
  IF newPage # currentProcessingPage /\ newPage >= 1 /\ newPage <= numPages
  THEN "page" ELSE "idle"

CommitEntry(ocr, native, final, textChunks) ==
  [pageNumber |-> cb.pageNum, ocr |-> ocr, native |-> native, final |-> final,
   textChunks |-> textChunks]

\* The setAllPages updater of PDFProcessor (and of the legacy one): `emits` are
\* the values passed to onProgressUpdate since the last await, h the history
\* with this page's OCR outcome.
CommitPage(pageData, emits, h) ==
  LET updated == AddPageSorted(allPages, pageData)
  IN IF AllPagesDone(updated, cb.numPages)
     THEN \* onProgressUpdate(100); onProcessingComplete(updated)
          /\ pages' = updated
          /\ isProcessing' = FALSE
          /\ currentPage' = 1
          /\ progress' = Percent(100)
          /\ hist' = [h EXCEPT !.emitted = @ \o emits \o <<Percent(100)>>,
                               !.completeCalls = @ + 1,
                               !.delivered = updated]
          /\ Unmount
          /\ UNCHANGED <<app, file, error, advancedMode, extractionResult, labVars>>
     ELSE \* setCurrentProcessingPage(pageNum + 1); onProgressUpdate(base + 6 steps)
          /\ allPages' = updated
          /\ currentProcessingPage' = NextPage(cb.pageNum)
          /\ pc' = PageAfter(NextPage(cb.pageNum))
          /\ cb' = NoCall
          /\ hist' = [h EXCEPT !.emitted = @ \o emits \o <<StepProgress(StepsPerPage)>>]
          /\ Progressed(emits \o <<StepProgress(StepsPerPage)>>)
          /\ UNCHANGED <<numPages, irPages>>

\* onPageLoadSuccess of EnhancedPDFProcessor after performEnhancedOCR resolved
\* with r: the two state updates, then the last-page test on the closure.
CommitEnhanced(r, h) ==
  LET pageData == [pageNumber |-> cb.pageNum, textChunks |-> r.legacyChunks]
      emits == <<StepProgress(5), StepProgress(6)>>
  IN IF cb.pageNum = cb.numPages
     THEN LET finalPages == AddPageSorted(cb.allPages, pageData)
              finalIRPages == AddPageSorted(cb.irPages, r.irPage)
              result == [text |-> JoinWith(
                                    [i \in 1..Len(finalPages) |->
                                       JoinWith([k \in 1..Len(finalPages[i].textChunks) |->
                                                   finalPages[i].textChunks[k].text], <<" ">>)],
                                    <<"\n">>),
                         chunks |-> generateTextChunks(finalIRPages),
                         pages |-> finalIRPages,
                         page_count |-> cb.numPages]
          IN \* onProcessingComplete(finalPages, extractionResult); onProgressUpdate(100)
             /\ pages' = finalPages
             /\ extractionResult' = <<result>>
             /\ isProcessing' = FALSE
             /\ currentPage' = 1
             /\ progress' = Percent(100)
             /\ hist' = [h EXCEPT !.emitted = @ \o emits \o <<Percent(100)>>,
                                  !.completeCalls = @ + 1,
                                  !.delivered = finalPages,
                                  !.deliveredIR = finalIRPages]
             /\ Unmount
             /\ UNCHANGED <<app, file, error, advancedMode, labVars>>
     ELSE /\ allPages' = AddPageSorted(allPages, pageData)
          /\ irPages' = AddPageSorted(irPages, r.irPage)
          /\ currentProcessingPage' = NextPage(cb.pageNum)
          /\ pc' = PageAfter(NextPage(cb.pageNum))
          /\ cb' = NoCall
          /\ hist' = [h EXCEPT !.emitted = @ \o emits]
          /\ Progressed(emits)
          /\ UNCHANGED numPages

CountOcrCall(h, pageNum) == [h EXCEPT !.ocrCalls[pageNum] = @ + 1]

\* page.render(...).promise settles.
RenderSettled(ok) ==
  /\ pc = "render"
  /\ IF ~ok
     THEN handleError("render", <<>>, hist)
     ELSE IF Processor = "E"
          THEN \* toDataURL, then performEnhancedOCR(canvas, pageNum) is called
               /\ pc' = "ocr"
               /\ hist' = [CountOcrCall(hist, cb.pageNum) EXCEPT
                             !.emitted = @ \o <<StepProgress(3), StepProgress(4)>>]
               /\ Progressed(<<StepProgress(3), StepProgress(4)>>)
               /\ UNCHANGED <<numPages, currentProcessingPage, allPages, irPages, cb>>
          ELSE \* page.getTextContent() is called
               /\ pc' = "textContent"
               /\ hist' = [hist EXCEPT !.emitted = @ \o <<StepProgress(3)>>]
               /\ Progressed(<<StepProgress(3)>>)
               /\ UNCHANGED <<numPages, currentProcessingPage, allPages, irPages, cb>>

\* page.getTextContent() rejects.
TextContentRejected ==
  /\ pc = "textContent"
  /\ handleError("textContent", <<>>, hist)

\* page.getTextContent() resolves with items (legacy PDFProcessor): group and commit.
LegacyTextContentResolved(items) ==
  /\ pc = "textContent" /\ Processor = "L"
  /\ LET textChunks == ExtractNativeChunks(items, cb.pageNum, "chunk")
         groupedChunks == legacyGroupNearbyTextChunks(textChunks)
     IN CommitPage([pageNumber |-> cb.pageNum, textChunks |-> groupedChunks], <<>>,
                   [hist EXCEPT !.commits = Append(@,
                      CommitEntry("notRequested", textChunks, textChunks, groupedChunks))])

\* page.getTextContent() resolves with items (PDFProcessor): extract, then either
\* call performOCR or group and commit the native chunks.
TextContentResolved(items) ==
  /\ pc = "textContent" /\ Processor = "P"
  /\ LET pdfTextChunks == ExtractNativeChunks(items, cb.pageNum, "pdf")
     IN IF OcrWanted(pdfTextChunks)
        THEN /\ pc' = "ocr"
             /\ cb' = [cb EXCEPT !.pdfTextChunks = pdfTextChunks]
             /\ hist' = [CountOcrCall(hist, cb.pageNum) EXCEPT
                           !.emitted = @ \o <<StepProgress(4)>>]
             /\ Progressed(<<StepProgress(4)>>)
             /\ UNCHANGED <<numPages, currentProcessingPage, allPages, irPages>>
        ELSE LET groupedChunks == groupNearbyTextChunks(pdfTextChunks)
             IN CommitPage([pageNumber |-> cb.pageNum, textChunks |-> groupedChunks],
                           <<StepProgress(4)>>,
                           [hist EXCEPT !.commits = Append(@,
                              CommitEntry("notRequested", pdfTextChunks, pdfTextChunks,
                                          groupedChunks))])

\* performOCR settles (PDFProcessor): choose the channel, group, commit.
OcrSettled(env) ==
  /\ pc = "ocr" /\ Processor = "P"
  /\ LET r == performOCR(env, cb.pageNum)
         finalTextChunks == IF r.rejected THEN cb.pdfTextChunks
                            ELSE ChooseFinal(r.chunks, cb.pdfTextChunks)
         groupedChunks == groupNearbyTextChunks(finalTextChunks)
         failed == env.kind \in OcrFailures
         h == [hist EXCEPT
                 !.ocrFailed = IF failed THEN @ \cup {cb.pageNum} ELSE @,
                 !.commits = Append(@, CommitEntry(IF failed THEN "failed" ELSE "returned",
                                                   cb.pdfTextChunks, finalTextChunks,
                                                   groupedChunks))]
     IN CommitPage([pageNumber |-> cb.pageNum, textChunks |-> groupedChunks],
                   IF r.rejected THEN <<>> ELSE <<StepProgress(5)>>, h)

\* performEnhancedOCR settles (EnhancedPDFProcessor).
EnhancedOcrSettled(env) ==
  /\ pc = "ocr" /\ Processor = "E"
  /\ LET r == performEnhancedOCR(env, cb.pageNum)
     IN IF r.rejected
        THEN handleError("ocr", <<>>, [hist EXCEPT !.ocrFailed = @ \cup {cb.pageNum}])
        ELSE CommitEnhanced(r,
               [hist EXCEPT !.commits = Append(@,
                  CommitEntry("returned", <<>>, r.legacyChunks, r.legacyChunks))])

Next ==
  \/ \E valid \in BOOLEAN : handleFileSelect(valid)
  \/ setAdvancedMode
  \/ resetViewer
  \/ handlePrevPage
  \/ handleNextPage
  \/ \E chunkId \in { <<id>> : id \in PageChunkIds } \cup { <<>> } : handleChunkSelect(chunkId)
  \/ \E k \in 1..(IF extractionResult = <<>> THEN 0 ELSE Len(extractionResult[1].chunks)) :
       handleTextChunkClick(extractionResult[1].chunks[k])
  \/ \E n \in 1..MaxPages : onDocumentLoadSuccess(n)
  \/ onDocumentLoadError
  \/ onPageLoadError
  \/ \E contextOk \in BOOLEAN : PageLoadSuccessBegin(contextOk)
  \/ \E ok \in BOOLEAN : RenderSettled(ok)
  \/ TextContentRejected
  \/ \E items \in NativeInputs : LegacyTextContentResolved(items)
  \/ \E items \in NativeInputs : TextContentResolved(items)
  \/ \E env \in OcrEnvs : OcrSettled(env)
  \/ \E env \in EnhancedOcrEnvs : EnhancedOcrSettled(env)

Spec == Init /\ [][Next]_vars

(* ======================================================================= *)
(* Properties of the run (specification Spec)                              *)
(* ======================================================================= *)
PageNumbers(list) == [i \in 1..Len(list) |-> list[i].pageNumber]

StrictlyAscending(nums) == \A i \in 1..Len(nums) - 1 : nums[i] < nums[i + 1]

NonDecreasing(nums) == \A i \in 1..Len(nums) - 1 : nums[i] <= nums[i + 1]

\* The page as the processor holds it, or as it was delivered.
Held(list, entry) ==
  \E i \in 1..Len(list) :
    list[i].pageNumber = entry.pageNumber /\ list[i].textChunks = entry.textChunks

\* C1: in PDFProcessor, a page whose OCR request failed (the call rejected or
\* the engine error was caught inside performOCR) is committed with the native
\* chunks as its selected list - the empty list when there were none - and the
\* failure does not reach onError.
C1_OcrFailureKeepsNative ==
  hist.processor = "P" =>
    /\ hist.errCause # "ocr"
    /\ \A p \in hist.ocrFailed : \E i \in 1..Len(hist.commits) : hist.commits[i].pageNumber = p
    /\ \A i \in 1..Len(hist.commits) :
         hist.commits[i].ocr = "failed" =>
           /\ hist.commits[i].final = hist.commits[i].native
           /\ hist.commits[i].textChunks = groupNearbyTextChunks(hist.commits[i].native)
           /\ pc # "unmounted" => Held(allPages, hist.commits[i])
           /\ hist.completeCalls > 0 => Held(hist.delivered, hist.commits[i])

\* A run of PDFProcessor in which OCR failed on a page without native chunks and
\* on a page with native chunks, and both pages were committed.
C1_Witness ==
  /\ hist.processor = "P"
  /\ \E i, j \in 1..Len(hist.commits) :
       /\ hist.commits[i].ocr = "failed" /\ hist.commits[i].native = <<>>
       /\ hist.commits[i].textChunks = <<>>
       /\ hist.commits[j].ocr = "failed" /\ hist.commits[j].native # <<>>
       /\ hist.commits[j].textChunks # <<>>

\* C2: in EnhancedPDFProcessor an OCR engine error is not reported through
\* onError: the run goes on.
C2_EnhancedOcrErrorStaysLocal ==
  (hist.processor = "E" /\ hist.ocrFailed # {}) =>
    /\ hist.errCause # "ocr"
    /\ isProcessing \/ hist.completeCalls > 0

PageScopedFailures == {"pageLoad", "canvasContext", "render", "textContent"}

\* C3: a failure scoped to one page does not halt the run: after it the
\* processor is still at work or the result has been delivered.
C3_PageFailureDoesNotHaltRun ==
  hist.errCause \in PageScopedFailures => (isProcessing \/ hist.completeCalls > 0)

\* C4: onProcessingComplete is called at most once per run, only when every
\* page 1..numPages has been committed, and with exactly one entry per page.
C4_CompleteOnlyWithAllPages ==
  /\ hist.completeCalls <= 1
  /\ Len(pages) > 0 => hist.completeCalls = 1 /\ pages = hist.delivered
  /\ hist.completeCalls = 1 =>
       /\ PageNumbers(hist.delivered) = [i \in 1..hist.docPages |-> i]
       /\ PageNumbers(hist.commits) = [i \in 1..hist.docPages |-> i]

\* A completed run over a document of several pages.
C4_Witness ==
  /\ hist.completeCalls = 1
  /\ hist.docPages >= 2
  /\ Len(pages) = hist.docPages

\* C5: the accumulated page lists are ascending by pageNumber after every
\* commit, and so are the lists handed to onProcessingComplete and the page
\* list of the intermediate representation.
C5_PageListsAscending ==
  /\ StrictlyAscending(PageNumbers(allPages))
  /\ StrictlyAscending(PageNumbers(irPages))
  /\ StrictlyAscending(PageNumbers(pages))
  /\ StrictlyAscending(PageNumbers(hist.delivered))
  /\ StrictlyAscending(PageNumbers(hist.deliveredIR))
  /\ extractionResult # <<>> => StrictlyAscending(PageNumbers(extractionResult[1].pages))

\* Two pages accumulated by the enhanced processor, a third still to come.
C5_Witness ==
  /\ Len(allPages) >= 2
  /\ Len(irPages) >= 2
  /\ pc = "page"

\* C6: the chunk_id values of ExtractionResult.chunks are pairwise distinct.
C6_ChunkIdsDistinct ==
  extractionResult # <<>> =>
    \A i, j \in 1..Len(extractionResult[1].chunks) :
      i # j => extractionResult[1].chunks[i].chunk_id # extractionResult[1].chunks[j].chunk_id

\* C7: within a run the OCR function is called at most once per page number.
C7_OcrAtMostOncePerPage ==
  \A p \in 1..MaxPages : hist.ocrCalls[p] <= 1

\* OCR has been called for two different pages of the run.
C7_Witness ==
  \E p, q \in 1..MaxPages : p # q /\ hist.ocrCalls[p] = 1 /\ hist.ocrCalls[q] = 1

Token(text, x, y) ==
  [id |-> <<"page", 1, "pdf", 0>>, text |-> text, pageNumber |-> 1,
   geometry |-> [x |-> x, y |-> y, w |-> 200, h |-> 50]]

RerunTokens ==
  { Token(t, x, y) : t \in {Txt_Hello, Txt_World}, x \in {100, 320}, y \in {100, 106} }

\* Arrays of 1..MaxTokens tokens, each object with its own id.
RerunInputs ==
  UNION { { [i \in 1..n |-> [f[i] EXCEPT !.id = <<"page", 1, "pdf", i - 1>>]] :
              f \in [1..n -> RerunTokens] } : n \in 1..MaxTokens }

InitRerun ==
  /\ app = "yo"
  /\ ViewerIdle
  /\ labPc = "tokens"
  /\ labIn \in RerunInputs
  /\ labOut = <<>>

\* const first = groupNearbyTextChunks(tokens)
RerunFirst ==
  /\ labPc = "tokens"
  /\ LET run == GroupNearbyTextChunksRun(labIn)
     IN /\ labOut' = <<run.result>>
        /\ labIn' = run.tokens
  /\ labPc' = "once"
  /\ UNCHANGED <<viewerVars, procVars, hist>>

\* const second = groupNearbyTextChunks(tokens)
RerunSecond ==
  /\ labPc = "once"
  /\ LET run == GroupNearbyTextChunksRun(labIn)
     IN /\ labOut' = Append(labOut, run.result)
        /\ labIn' = run.tokens
  /\ labPc' = "twice"
  /\ UNCHANGED <<viewerVars, procVars, hist>>

NextRerun == RerunFirst \/ RerunSecond

SpecRerun == InitRerun /\ [][NextRerun]_vars

\* C9: clustering the same token set a second time yields the lines of the
\* first time - same ids, text, boxes and order.
C9_RerunYieldsSameLines ==
  labPc = "twice" => labOut[2] = labOut[1]

(* ======================================================================= *)
(* Line and block clustering of one page's words (specification SpecBlocks) *)
(* ======================================================================= *)
BlockWords ==
  { Box(Txt_Hi, 90, 0, y, 100, h) : y \in {0, 40, 50, 70, 80, 100}, h \in {10, 20} }

BlockInputs ==
  UNION { [1..n -> BlockWords] : n \in 1..MaxWords }

InitBlocks ==
  /\ app = "main"
  /\ ViewerIdle
  /\ labPc = "words"
  /\ labIn \in BlockInputs
  /\ labOut = <<>>

\* The clustering part of performEnhancedOCR: words, lines, blocks.
ClusterWords ==
  /\ labPc = "words"
  /\ LET lines == LinesOf(WordsOf(labIn))
     IN labOut' = [lines |-> lines, blocks |-> groupLinesIntoBlocks(lines)]
  /\ labPc' = "clustered"
  /\ UNCHANGED <<viewerVars, procVars, hist, labIn>>

NextBlocks == ClusterWords

SpecBlocks == InitBlocks /\ [][NextBlocks]_vars

\* The block (by position) that holds the i-th input line.
RECURSIVE BlockIndexOf(_, _)
BlockIndexOf(blocks, i) ==
  IF i <= Len(Head(blocks)) THEN 1
  ELSE 1 + BlockIndexOf(Tail(blocks), i - Len(Head(blocks)))

LineGap(lines, i) == lines[i + 1].bbox.y - (lines[i].bbox.y + lines[i].bbox.height)

SameBlock(i) == BlockIndexOf(labOut.blocks, i) = BlockIndexOf(labOut.blocks, i + 1)

\* C10 (as amended): consecutive lines with a vertical gap above 0.03 are in
\* different blocks, and consecutive lines with a gap of 0.03 or less are in
\* the same block.
C10_BlockBreakAboveThreshold ==
  labPc = "clustered" =>
    \A i \in 1..Len(labOut.lines) - 1 :
      /\ LineGap(labOut.lines, i) > BlockBreakThreshold => ~SameBlock(i)
      /\ LineGap(labOut.lines, i) <= BlockBreakThreshold => SameBlock(i)

\* Three lines: a gap of exactly 0.03 kept in one block, then a larger gap that
\* breaks the block.
C10_Witness ==
  /\ labPc = "clustered"
  /\ \E i, j \in 1..Len(labOut.lines) - 1 :
       /\ LineGap(labOut.lines, i) = BlockBreakThreshold /\ SameBlock(i)
       /\ LineGap(labOut.lines, j) > BlockBreakThreshold /\ ~SameBlock(j)

\* C10 as stated: a gap of 0.03 or more separates the blocks, a smaller gap
\* does not.
C10_BlockBreakAtThreshold ==
  labPc = "clustered" =>
    \A i \in 1..Len(labOut.lines) - 1 :
      /\ LineGap(labOut.lines, i) >= BlockBreakThreshold => ~SameBlock(i)
      /\ LineGap(labOut.lines, i) < BlockBreakThreshold => SameBlock(i)

(* ======================================================================= *)
(* One call of groupNearbyTextChunks on a token array (specification SpecMerge) *)
(* ======================================================================= *)
\* item.str of a whole text line: 50 characters.
Txt_LongLine == Rep("x", MaxChunkTextLength)

\* Tokens 20 percent wide and 5 percent high.  After a token at x = 10 percent
\* the token at 30.5 leaves a gap of 0.5, at 32 a gap of 2, at 34 a gap of 4;
\* one token sits 0.6 percent lower.  At the foot of the page, a token 4.5
\* percent high that ends on the page edge and a taller one that starts 0.5
\* percent higher.
MergeTokens ==
  { Token(t, x, 100) : t \in {Txt_Hello, Txt_LongLine}, x \in {100, 305, 320, 340} }
    \cup { Token(Txt_World, 320, 100), Token(Txt_World, 320, 106) }
    \cup { [Token(Txt_Hello, 100, 955) EXCEPT !.geometry.h = 45],
           [Token(Txt_World, 320, 950) EXCEPT !.geometry.h = 49] }

MergeInputs ==
  UNION { { [i \in 1..n |-> [f[i] EXCEPT !.id = <<"page", 1, "pdf", i - 1>>]] :
              f \in [1..n -> MergeTokens] } : n \in 1..MaxTokens }

InitMerge ==
  /\ app \in {"yo", "main"}
  /\ ViewerIdle
  /\ labPc = "tokens"
  /\ labIn \in MergeInputs
  /\ labOut = <<>>

\* const groupedChunks = groupNearbyTextChunks(finalTextChunks), in the
\* PDFProcessor of either application.  labIn keeps the tokens as they were
\* before the call; labOut is what the call returned and the token objects as
\* the call left them.
GroupTokens ==
  /\ labPc = "tokens"
  /\ labOut' = IF Processor = "P" THEN GroupNearbyTextChunksRun(labIn)
               ELSE LegacyGroupNearbyTextChunksRun(labIn)
  /\ labPc' = "grouped"
  /\ UNCHANGED <<viewerVars, procVars, hist, labIn>>

NextMerge == GroupTokens

SpecMerge == InitMerge /\ [][NextMerge]_vars

\* Tokens A = labIn[1] then B = labIn[2] on one row, B to the right of A by a
\* gap above the kerning cutoff (where the processor has one) and below its
\* wordThreshold.
RowPairWithWordGap ==
  /\ Len(labIn) = 2
  /\ labIn[1].geometry.y = labIn[2].geometry.y
  /\ labIn[1].geometry.h = labIn[2].geometry.h
  /\ LET gap == labIn[2].geometry.x - (labIn[1].geometry.x + labIn[1].geometry.w)
     IN IF Processor = "P" THEN gap > SeparatorGap /\ gap < WordThreshold
        ELSE gap >= 0 /\ gap < LegacyWordThreshold

\* C11: two tokens on the same row with a word gap between them come out as
\* exactly one line, text "A B", box from A's left edge to B's right edge.
C11_RowPairBecomesOneLine ==
  (labPc = "grouped" /\ RowPairWithWordGap) =>
    /\ Len(labOut.result) = 1
    /\ labOut.result[1].text = labIn[1].text \o <<" ">> \o labIn[2].text
    /\ labOut.result[1].geometry =
         [x |-> labIn[1].geometry.x, y |-> labIn[1].geometry.y,
          w |-> labIn[2].geometry.x + labIn[2].geometry.w - labIn[1].geometry.x,
          h |-> labIn[1].geometry.h]

\* C15: after groupNearbyTextChunks returned, every token it was given has the
\* text and the geometry it had before the call.
C15_TokensNotMutated ==
  labPc = "grouped" => labOut.tokens = labIn

(* ======================================================================= *)
(* The coordinate transforms of the types module (specification SpecTransform) *)
(* ======================================================================= *)
\* Numbers are fractions num/den with den > 0, and the arithmetic is exact:
\* the rounding of the IEEE operations involved (about 1e-16 relative) is far
\* below every tolerance compared against here.
RECURSIVE GCD(_, _)
GCD(a, b) == IF b = 0 THEN a ELSE GCD(b, a % b)
\* The fraction n/d in lowest terms.
Rat(n, d) == LET g == GCD(Abs(n), d) IN [num |-> n \div g, den |-> d \div g]
RatAdd(a, b) == Rat(a.num * b.den + b.num * a.den, a.den * b.den)
RatSub(a, b) == Rat(a.num * b.den - b.num * a.den, a.den * b.den)
RatMul(a, b) == Rat(a.num * b.num, a.den * b.den)
\* a / b for b > 0 (page dimensions are positive).
RatDiv(a, b) == Rat(a.num * b.den, a.den * b.num)
RatLeq(a, b) == a.num * b.den <= b.num * a.den
RatEq(a, b) == a.num * b.den = b.num * a.den
RatAbs(a) == Rat(Abs(a.num), a.den)
\* Math.round: the nearest integer, halves towards +infinity.
MathRound(a) == Rat((2 * a.num + a.den) \div (2 * a.den), 1)

\* The normalized coordinate 1.0 in the thousandths the inputs are drawn in.
NormalizedMax == 1000

transformLegacyToGrounding(legacyChunk, pageWidth, pageHeight) ==
  LET g == legacyChunk.geometry
      normalizedBox == [l |-> RatDiv(g.x, pageWidth),
                        t |-> RatDiv(g.y, pageHeight),
                        r |-> RatDiv(RatAdd(g.x, g.w), pageWidth),
                        b |-> RatDiv(RatAdd(g.y, g.h), pageHeight)]
  IN [chunk_id |-> legacyChunk.id,
      text |-> legacyChunk.text,
      chunk_type |-> "text",
      grounding |-> <<[page |-> legacyChunk.pageNumber - 1, box |-> normalizedBox]>>,
      confidence |-> Rat(8, 10)]

transformGroundingToLegacy(textChunk, pageWidth, pageHeight) ==
  LET grounding == textChunk.grounding[1]
      box == grounding.box
  IN [id |-> textChunk.chunk_id,
      text |-> textChunk.text,
      pageNumber |-> grounding.page + 1,
      geometry |-> [x |-> RatMul(box.l, pageWidth),
                    y |-> RatMul(box.t, pageHeight),
                    w |-> RatMul(RatSub(box.r, box.l), pageWidth),
                    h |-> RatMul(RatSub(box.b, box.t), pageHeight)]]

transformGroundingToPixels(grounding, documentWidth, documentHeight) ==
  [x |-> MathRound(RatMul(grounding.l, documentWidth)),
   y |-> MathRound(RatMul(grounding.t, documentHeight)),
   width |-> MathRound(RatMul(RatSub(grounding.r, grounding.l), documentWidth)),
   height |-> MathRound(RatMul(RatSub(grounding.b, grounding.t), documentHeight))]

\* A pixel rectangle read as the geometry of a legacy chunk, which is how
\* transformLegacyToGrounding takes pixel coordinates back to normalized ones.
PixelsAsLegacy(textChunk, px) ==
  [id |-> textChunk.chunk_id,
   text |-> textChunk.text,
   pageNumber |-> textChunk.grounding[1].page + 1,
   geometry |-> [x |-> px.x, y |-> px.y, w |-> px.width, h |-> px.height]]

\* Horizontal edges: below 0, 0, 1/4, 1/3, 1 and above 1; vertical edges 0, 1/2.
GroundingBoxes ==
  { [l |-> Rat(l, NormalizedMax), t |-> Rat(t, NormalizedMax),
     r |-> Rat(r, NormalizedMax), b |-> Rat(b, NormalizedMax)] :
      l \in {-100, 0, 250, 333, 1000, 1200}, r \in {-100, 0, 250, 333, 1000, 1200},
      t \in {0, 500}, b \in {0, 500} }

TransformInputs ==
  { [chunk |-> [chunk_id |-> "block-0", text |-> Txt_Hi, chunk_type |-> "text",
                grounding |-> <<[page |-> p, box |-> box]>>, confidence |-> Rat(8, 10)],
     pageWidth |-> Rat(pw, 1), pageHeight |-> Rat(3, 1)] :
      p \in {0, 1}, box \in GroundingBoxes, pw \in {1, 10} }

InitTransform ==
  /\ app = "main"
  /\ ViewerIdle
  /\ labPc = "grounding"
  /\ labIn \in TransformInputs
  /\ labOut = <<>>

\* transformLegacyToGrounding(transformGroundingToLegacy(chunk, w, h), w, h)
RoundTripLegacy ==
  /\ labPc = "grounding"
  /\ LET legacy == transformGroundingToLegacy(labIn.chunk, labIn.pageWidth, labIn.pageHeight)
     IN labOut' = [form |-> legacy.geometry,
                   back |-> transformLegacyToGrounding(legacy, labIn.pageWidth, labIn.pageHeight)]
  /\ labPc' = "legacy"
  /\ UNCHANGED <<viewerVars, procVars, hist, labIn>>

\* transformGroundingToPixels(box, w, h), and the pixel rectangle taken back
\* to normalized coordinates.
RoundTripPixels ==
  /\ labPc = "grounding"
  /\ LET px == transformGroundingToPixels(labIn.chunk.grounding[1].box,
                                          labIn.pageWidth, labIn.pageHeight)
     IN labOut' = [form |-> [x |-> px.x, y |-> px.y, w |-> px.width, h |-> px.height],
                   back |-> transformLegacyToGrounding(PixelsAsLegacy(labIn.chunk, px),
                                                       labIn.pageWidth, labIn.pageHeight)]
  /\ labPc' = "pixels"
  /\ UNCHANGED <<viewerVars, procVars, hist, labIn>>

NextTransform == RoundTripLegacy \/ RoundTripPixels

SpecTransform == InitTransform /\ [][NextTransform]_vars

InUnit(a) == RatLeq(Rat(0, 1), a) /\ RatLeq(a, Rat(1, 1))

ValidGroundingBox(box) ==
  /\ InUnit(box.l) /\ InUnit(box.r) /\ InUnit(box.t) /\ InUnit(box.b)
  /\ RatLeq(box.l, box.r) /\ RatLeq(box.t, box.b)

\* |a - b| <= 1e-6 * |b|
WithinTolerance(a, b) ==
  RatLeq(RatMul(Rat(1000000, 1), RatAbs(RatSub(a, b))), RatAbs(b))

\* C12: a valid normalized box taken to legacy or to pixel form and back is
\* the original box within 1e-6 relative, on the original page index.
C12_RoundTripReproducesBox ==
  (labPc \in {"legacy", "pixels"} /\ ValidGroundingBox(labIn.chunk.grounding[1].box)) =>
    LET orig == labIn.chunk.grounding[1]
        back == labOut.back.grounding[1]
    IN /\ back.page = orig.page
       /\ WithinTolerance(back.box.l, orig.box.l)
       /\ WithinTolerance(back.box.t, orig.box.t)
       /\ WithinTolerance(back.box.r, orig.box.r)
       /\ WithinTolerance(back.box.b, orig.box.b)

\* C14: what the transforms return is renderable whatever they were given:
\* non-negative width and height, left <= right, top <= bottom, normalized
\* coordinates within [0,1].
C14_TransformsReturnRenderableBoxes ==
  labPc \in {"legacy", "pixels"} =>
    /\ RatLeq(Rat(0, 1), labOut.form.w) /\ RatLeq(Rat(0, 1), labOut.form.h)
    /\ ValidGroundingBox(labOut.back.grounding[1].box)

(* ======================================================================= *)
(* One OCR result through either OCR function (specification SpecOcr)      *)
(* ======================================================================= *)
Txt_Blank == <<" ">>

\* Words as the engine reports them: text "Hi" or blank, confidence 30 or 31,
\* a box inside the page, of zero width, or reaching over the right edge.
OcrWordBoxes ==
  { Box(Txt_Hi, c, g[1], 100, g[2], 50) :
      c \in {30, 31}, g \in {<<100, 200>>, <<100, 0>>, <<900, 200>>} }
    \cup { Box(Txt_Blank, 31, 100, 100, 200, 50) }

OcrLineBoxes ==
  { Box(Txt_Hi, 80, 100, 100, 200, 50), Box(Txt_Hi, 20, 100, 100, 200, 50),
    Box(Txt_Hi, 80, 900, 100, 200, 50), Box(Txt_Blank, 80, 100, 100, 200, 50) }

\* data of worker.recognize(): up to MaxTokens words, at most one line, and
\* the page text, which holds the text of the words and lines (it is blank
\* only when all of them are).
OcrResults ==
  { d \in [text : {Txt_Hi, Txt_Blank},
           words : UNION { [1..n -> OcrWordBoxes] : n \in 0..MaxTokens },
           lines : {<<>>} \cup { <<b>> : b \in OcrLineBoxes }] :
      (\/ \E i \in 1..Len(d.words) : Len(Trim(d.words[i].text)) > 0
       \/ \E i \in 1..Len(d.lines) : Len(Trim(d.lines[i].text)) > 0)
        => Len(Trim(d.text)) > 0 }

InitOcr ==
  /\ app \in {"yo", "main"}
  /\ ViewerIdle
  /\ labPc = "recognized"
  /\ labIn \in OcrResults
  /\ labOut = <<>>

\* const ocrChunks = await performOCR(imageUrl, pageNum), recognize resolved
RunPerformOCR ==
  /\ labPc = "recognized" /\ app = "yo"
  /\ labOut' = performOCR([kind |-> "ok", data |-> labIn], 1)
  /\ labPc' = "performOCR"
  /\ UNCHANGED <<viewerVars, procVars, hist, labIn>>

\* const { legacyChunks, irPage } = await performEnhancedOCR(canvas, pageNumber)
RunPerformEnhancedOCR ==
  /\ labPc = "recognized" /\ app = "main"
  /\ labOut' = performEnhancedOCR([kind |-> "ok", hasWords |-> TRUE, words |-> labIn.words], 1)
  /\ labPc' = "performEnhancedOCR"
  /\ UNCHANGED <<viewerVars, procVars, hist, labIn>>

NextOcr == RunPerformOCR \/ RunPerformEnhancedOCR

SpecOcr == InitOcr /\ [][NextOcr]_vars

\* A box with positive width and height whose edges lie on the page.
WithinPage(x, y, w, h) ==
  /\ w > 0 /\ h > 0 /\ x >= 0 /\ y >= 0 /\ x + w <= PercentMax /\ y + h <= PercentMax

\* C13: every token either OCR function hands on (to the channel comparison
\* and line clustering, or as words, lines and blocks) has a box of positive
\* size that lies within the page.
C13_NoAnomalousBoxPastIngestion ==
  /\ labPc = "performOCR" =>
       \A i \in 1..Len(labOut.chunks) :
         LET g == labOut.chunks[i].geometry IN WithinPage(g.x, g.y, g.w, g.h)
  /\ labPc = "performEnhancedOCR" =>
       /\ \A i \in 1..Len(labOut.irPage.words) :
            LET g == labOut.irPage.words[i].bbox IN WithinPage(g.x, g.y, g.width, g.height)
       /\ \A i \in 1..Len(labOut.irPage.lines) :
            LET g == labOut.irPage.lines[i].bbox IN WithinPage(g.x, g.y, g.width, g.height)
       /\ \A i \in 1..Len(labOut.irPage.blocks) :
            LET g == labOut.irPage.blocks[i].bbox IN WithinPage(g.x, g.y, g.width, g.height)

\* C17: every word- or line-level token of performOCR comes from an engine
\* box with confidence above 30 and non-blank text, the whole-page token has
\* non-blank text, and every word of performEnhancedOCR has confidence above
\* 30 and non-blank text.
C17_NoLowConfidenceOrBlankOcrToken ==
  /\ labPc = "performOCR" =>
       \A i \in 1..Len(labOut.chunks) :
         LET c == labOut.chunks[i]
             from == IF c.id[3] = "ocr" THEN labIn.words ELSE labIn.lines
         IN /\ Len(Trim(c.text)) > 0
            /\ c.id[3] # "ocr-full" =>
                 \E k \in 1..Len(from) :
                   /\ Trim(from[k].text) = c.text
                   /\ c.geometry = [x |-> from[k].x, y |-> from[k].y, w |-> from[k].w, h |-> from[k].h]
                   /\ from[k].confidence > 30
  /\ labPc = "performEnhancedOCR" =>
       \A i \in 1..Len(labOut.irPage.words) :
         /\ labOut.irPage.words[i].confidence > 30
         /\ Len(Trim(labOut.irPage.words[i].text)) > 0

\* The acceptance filters of a word or a line, as the claim states them.
PassesAcceptance(b) ==
  /\ Len(Trim(b.text)) > 0
  /\ b.confidence > 30
  /\ WithinPage(b.x, b.y, b.w, b.h)

TokensOfLevel(chunks, boxes, tag) ==
  LET passing == SelectSeq(boxes, PassesAcceptance)
  IN /\ Len(chunks) = Len(passing)
     /\ \A i \in 1..Len(chunks) :
          /\ chunks[i].id[3] = tag
          /\ chunks[i].text = Trim(passing[i].text)
          /\ chunks[i].geometry = [x |-> passing[i].x, y |-> passing[i].y,
                                   w |-> passing[i].w, h |-> passing[i].h]

\* C18: performOCR returns the word-level tokens alone when a word passes the
\* filters; else the line-level tokens alone when a line passes; else one
\* whole-page token when the page text is not blank; else nothing.
C18_WordThenLineThenPage ==
  labPc = "performOCR" =>
    IF \E i \in 1..Len(labIn.words) : PassesAcceptance(labIn.words[i])
    THEN TokensOfLevel(labOut.chunks, labIn.words, "ocr")
    ELSE IF \E i \in 1..Len(labIn.lines) : PassesAcceptance(labIn.lines[i])
    THEN TokensOfLevel(labOut.chunks, labIn.lines, "ocr-line")
    ELSE IF Len(Trim(labIn.text)) > 0
    THEN /\ Len(labOut.chunks) = 1
         /\ labOut.chunks[1].id[3] = "ocr-full"
         /\ labOut.chunks[1].text = Trim(labIn.text)
    ELSE labOut.chunks = <<>>

\* A word passes and so does the line: only the word comes back.
C18_Witness ==
  /\ labPc = "performOCR"
  /\ \E i \in 1..Len(labIn.words) : PassesAcceptance(labIn.words[i])
  /\ \E i \in 1..Len(labIn.lines) : PassesAcceptance(labIn.lines[i])
  /\ Len(labOut.chunks) > 0
  /\ \A i \in 1..Len(labOut.chunks) : labOut.chunks[i].id[3] = "ocr"

(* ======================================================================= *)
(* The semantic regions of one page (specification SpecRegions)            *)
(* ======================================================================= *)
\* Words 0.02 high from the top of the page to its bottom, some of them on
\* the 0.2 and 0.8 limits.
RegionWords ==
  { Box(Txt_Hi, 90, 100, y, 100, 20) : y \in {50, 180, 200, 500, 780, 790, 900} }

RegionInputs ==
  UNION { [1..n -> RegionWords] : n \in 1..MaxWords }

InitRegions ==
  /\ app = "main"
  /\ ViewerIdle
  /\ labPc = "words"
  /\ labIn \in RegionInputs
  /\ labOut = <<>>

\* irPage of performEnhancedOCR: semanticRegions: generateSemanticRegions(blocks)
BuildPage ==
  /\ labPc = "words"
  /\ labOut' = performEnhancedOCR([kind |-> "ok", hasWords |-> TRUE, words |-> labIn], 1).irPage
  /\ labPc' = "page"
  /\ UNCHANGED <<viewerVars, procVars, hist, labIn>>

NextRegions == BuildPage

SpecRegions == InitRegions /\ [][NextRegions]_vars

RegionsOfType(type) ==
  SelectSeq(labOut.semanticRegions, LAMBDA r : r.type = type)

ReferencedBy(type, blockId) ==
  \E i \in 1..Len(RegionsOfType(type)) :
    \E k \in 1..Len(RegionsOfType(type)[i].blockIds) :
      RegionsOfType(type)[i].blockIds[k] = blockId

\* C16: a page has at most one header, one footer and one main_content
\* region, and every block outside header and footer is in main_content.
C16_RegionsCoverAllBlocks ==
  labPc = "page" =>
    /\ Len(RegionsOfType("header")) <= 1
    /\ Len(RegionsOfType("footer")) <= 1
    /\ Len(RegionsOfType("main_content")) <= 1
    /\ \A i \in 1..Len(labOut.blocks) :
         (~ReferencedBy("header", labOut.blocks[i].id) /\ ~ReferencedBy("footer", labOut.blocks[i].id))
           => ReferencedBy("main_content", labOut.blocks[i].id)

(* ======================================================================= *)
(* The OCR decision and the channel selection of one page in PDFProcessor   *)
(* (specification SpecDecision)                                             *)
(* ======================================================================= *)
Txt_Hash == <<"a", "#", "b">>
Txt_Dash == <<"a", "-", "b">>
Txt_LongWord == Rep("x", LongWordLength + 1)

\* textContent.items: n items of one text (2, 3 or 21 characters), n around
\* the two count limits, and possibly one more item whose text has a special
\* character, a punctuation character, or is long.
DecisionItems ==
  { [i \in 1..n |-> Item(t, 100, 100, 100, 30)] \o e :
      n \in {0, 1, MinNativeChunks - 1, MinNativeChunks, MinNativeChunks + 1,
             ManyChunks, ManyChunks + 1},
      t \in {Txt_Hi, Txt_abc, Txt_LongWord},
      e \in {<<>>} \cup { <<Item(x, 100, 100, 100, 30)>> : x \in {Txt_Hash, Txt_Dash, Txt_LongWord} } }

\* data of worker.recognize(): up to three words of one text, all acceptable.
DecisionOcrData ==
  { [text |-> t, words |-> [i \in 1..n |-> Box(t, 90, 100, 100, 200, 50)], lines |-> <<>>] :
      n \in 0..3, t \in {Txt_Hi, Txt_Hello} }

InitDecision ==
  /\ app = "yo"
  /\ ViewerIdle
  /\ labPc = "textContent"
  /\ labIn \in [items : DecisionItems, data : DecisionOcrData]
  /\ labOut = <<>>

\* onPageLoadSuccess from the native extraction to the OCR decision.
DecideOcr ==
  /\ labPc = "textContent"
  /\ LET pdfTextChunks == ExtractNativeChunks(labIn.items, 1, "pdf")
     IN labOut' = [pdfTextChunks |-> pdfTextChunks, ocrWanted |-> OcrWanted(pdfTextChunks)]
  /\ labPc' = "decided"
  /\ UNCHANGED <<viewerVars, procVars, hist, labIn>>

\* performOCR resolved: the channel selection.
SelectChannel ==
  /\ labPc = "decided" /\ labOut.ocrWanted
  /\ LET ocrChunks == performOCR([kind |-> "ok", data |-> labIn.data], 1).chunks
     IN labOut' = [pdfTextChunks |-> labOut.pdfTextChunks,
                   ocrWanted |-> TRUE,
                   ocrChunks |-> ocrChunks,
                   finalTextChunks |-> ChooseFinal(ocrChunks, labOut.pdfTextChunks)]
  /\ labPc' = "selected"
  /\ UNCHANGED <<viewerVars, procVars, hist, labIn>>

NextDecision == DecideOcr \/ SelectChannel

SpecDecision == InitDecision /\ [][NextDecision]_vars

TotalTextLength(chunks) == SumSeq([i \in 1..Len(chunks) |-> Len(chunks[i].text)])

\* The characters that do not count as special.
OrdinaryChars == WordChars \cup {" ", "\n", ".", ",", "!", "?", ";", ":", "(", ")", "-"}

\* The four triggers, as the claim states them.
OcrTrigger(native) ==
  \/ Len(native) < 10
  \/ TotalTextLength(native) < 3 * Len(native)
  \/ (Len(native) > 50 /\ \A i \in 1..Len(native) : Len(native[i].text) <= 20)
  \/ \E i \in 1..Len(native) : \E k \in 1..Len(native[i].text) :
        native[i].text[k] \notin OrdinaryChars

\* C19: OCR is requested for a page exactly when one of the four triggers
\* holds for its native tokens.
C19_OcrRequestedIffTrigger ==
  labPc \in {"decided", "selected"} =>
    (labOut.ocrWanted <=> OcrTrigger(labOut.pdfTextChunks))

\* More than 50 short native tokens of acceptable average length: the third
\* trigger alone requests OCR.
C19_Witness ==
  /\ labPc = "decided"
  /\ Len(labOut.pdfTextChunks) > 50
  /\ TotalTextLength(labOut.pdfTextChunks) >= 3 * Len(labOut.pdfTextChunks)
  /\ \A i \in 1..Len(labOut.pdfTextChunks) :
       \A k \in 1..Len(labOut.pdfTextChunks[i].text) :
         labOut.pdfTextChunks[i].text[k] \in OrdinaryChars
  /\ labOut.ocrWanted

\* avgTextLen(ocr) > 1.2 * avgTextLen(native) or len(ocr) > 1.5 * len(native)
PreferOcrRule(ocr, native) ==
  \/ /\ Len(ocr) > 0 /\ Len(native) > 0
     /\ 10 * TotalTextLength(ocr) * Len(native) > 12 * TotalTextLength(native) * Len(ocr)
  \/ 2 * Len(ocr) > 3 * Len(native)

\* C20: after OCR returned, the OCR tokens are the page's tokens exactly when
\* the preference rule holds, and the native tokens are otherwise.
C20_OcrReplacesNativeIffRule ==
  (labPc = "selected" /\ labOut.ocrChunks # labOut.pdfTextChunks) =>
    /\ labOut.finalTextChunks = labOut.ocrChunks
         <=> PreferOcrRule(labOut.ocrChunks, labOut.pdfTextChunks)
    /\ labOut.finalTextChunks # labOut.ocrChunks
         => labOut.finalTextChunks = labOut.pdfTextChunks

(* ======================================================================= *)
(* The lines of groupNearbyTextChunks (specification SpecMerge, continued)  *)
(* ======================================================================= *)
\* The union of the boxes of the tokens: from the least left and top edge to
\* the greatest right and bottom edge.
UnionBox(tokens) ==
  LET left == MinSeq([i \in 1..Len(tokens) |-> tokens[i].geometry.x])
      top == MinSeq([i \in 1..Len(tokens) |-> tokens[i].geometry.y])
      right == MaxSeq([i \in 1..Len(tokens) |-> tokens[i].geometry.x + tokens[i].geometry.w])
      bottom == MaxSeq([i \in 1..Len(tokens) |-> tokens[i].geometry.y + tokens[i].geometry.h])
  IN [x |-> left, y |-> top, w |-> right - left, h |-> bottom - top]

\* C21: when all the tokens given were merged into one line, the line's box is
\* the union of the tokens' boxes.
C21_MergedBoxIsUnion ==
  (labPc = "grouped" /\ Len(labIn) >= 2 /\ Len(labOut.result) = 1) =>
    labOut.result[1].geometry = UnionBox(labIn)

\* The join conditions as the claim lists them, for the token b after the
\* one-token line a.
JoinConditions(a, b) ==
  /\ Abs(b.geometry.y - a.geometry.y) < LineThreshold
  /\ b.geometry.x - (a.geometry.x + a.geometry.w) >= 0
  /\ b.geometry.x - (a.geometry.x + a.geometry.w) < WordThreshold
  /\ Abs(b.geometry.h - a.geometry.h) < FontSizeTolerance
  /\ Len(a.text) + 1 + Len(b.text) < 500

\* C22: of two tokens in sorted order the second joins the line of the first
\* exactly when the join conditions hold and starts a line of its own
\* otherwise; no token is lost and every line is shorter than 500 characters.
C22_JoinsExactlyOnConditions ==
  (labPc = "grouped" /\ Processor = "P" /\ Len(labIn) = 2) =>
    LET sorted == SortBy(labIn, "chunkPosition")
        a == sorted[1]
        b == sorted[2]
        lines == labOut.result
    IN /\ IF JoinConditions(a, b)
          THEN /\ Len(lines) = 1
               /\ lines[1].text \in {a.text \o b.text, a.text \o <<" ">> \o b.text}
          ELSE /\ Len(lines) = 2
               /\ lines[1].text = a.text /\ lines[2].text = b.text
       /\ \A i \in 1..Len(lines) : Len(lines[i].text) < 500

\* C27: tokens within the page give chunks within the page.
C27_MergedChunksStayInPage ==
  (/\ labPc = "grouped" /\ Processor = "P"
   /\ \A i \in 1..Len(labIn) :
        LET g == labIn[i].geometry IN WithinPage(g.x, g.y, g.w, g.h)) =>
    \A i \in 1..Len(labOut.result) :
      LET g == labOut.result[i].geometry
      IN g.x >= 0 /\ g.y >= 0 /\ g.x + g.w <= PercentMax /\ g.y + g.h <= PercentMax

(* ======================================================================= *)
(* The regions as a position heuristic (specification SpecRegions, continued) *)
(* ======================================================================= *)
\* The first block from the top (of equal tops the one emitted first) and the
\* last one (of equal tops the one emitted last), by position in blocks.
TopBlockIndex(blocks) ==
  CHOOSE i \in 1..Len(blocks) :
    \A j \in 1..Len(blocks) :
      blocks[i].bbox.y < blocks[j].bbox.y \/ (blocks[i].bbox.y = blocks[j].bbox.y /\ i <= j)

BottomBlockIndex(blocks) ==
  CHOOSE i \in 1..Len(blocks) :
    \A j \in 1..Len(blocks) :
      blocks[i].bbox.y > blocks[j].bbox.y \/ (blocks[i].bbox.y = blocks[j].bbox.y /\ i >= j)

StrictlyInside(b) == b.bbox.y > 200 /\ b.bbox.y + b.bbox.height < 800

\* C23: header (0.70, the first block alone) iff the first block's top is
\* below 0.2; footer (0.70, the last block alone) iff the last block's bottom
\* is above 0.8; main_content (0.80) iff some block lies strictly inside
\* (0.2, 0.8), referencing exactly those blocks, its box their union.
C23_RegionsFollowPositionHeuristic ==
  (labPc = "page" /\ Len(labOut.blocks) > 0) =>
    LET blocks == labOut.blocks
        first == blocks[TopBlockIndex(blocks)]
        last == blocks[BottomBlockIndex(blocks)]
        inside == { i \in 1..Len(blocks) : StrictlyInside(blocks[i]) }
        headers == RegionsOfType("header")
        footers == RegionsOfType("footer")
        mains == RegionsOfType("main_content")
    IN /\ Len(headers) = (IF first.bbox.y < 200 THEN 1 ELSE 0)
       /\ \A k \in 1..Len(headers) :
            headers[k].confidence = 70 /\ headers[k].blockIds = <<first.id>>
       /\ Len(footers) = (IF last.bbox.y + last.bbox.height > 800 THEN 1 ELSE 0)
       /\ \A k \in 1..Len(footers) :
            footers[k].confidence = 70 /\ footers[k].blockIds = <<last.id>>
       /\ Len(mains) = (IF inside # {} THEN 1 ELSE 0)
       /\ \A k \in 1..Len(mains) :
            /\ mains[k].confidence = 80
            /\ { mains[k].blockIds[n] : n \in 1..Len(mains[k].blockIds) }
                 = { blocks[i].id : i \in inside }
            /\ Len(mains[k].blockIds) = Cardinality(inside)
            /\ \A i \in inside :
                 /\ mains[k].bbox.x <= blocks[i].bbox.x
                 /\ mains[k].bbox.y <= blocks[i].bbox.y
                 /\ mains[k].bbox.x + mains[k].bbox.width >= blocks[i].bbox.x + blocks[i].bbox.width
                 /\ mains[k].bbox.y + mains[k].bbox.height >= blocks[i].bbox.y + blocks[i].bbox.height
            /\ \E i \in inside : mains[k].bbox.x = blocks[i].bbox.x
            /\ \E i \in inside : mains[k].bbox.y = blocks[i].bbox.y
            /\ \E i \in inside : mains[k].bbox.x + mains[k].bbox.width
                                   = blocks[i].bbox.x + blocks[i].bbox.width
            /\ \E i \in inside : mains[k].bbox.y + mains[k].bbox.height
                                   = blocks[i].bbox.y + blocks[i].bbox.height

\* A page with a header, a footer and a main_content region.
C23_Witness ==
  /\ labPc = "page"
  /\ Len(RegionsOfType("header")) = 1
  /\ Len(RegionsOfType("footer")) = 1
  /\ Len(RegionsOfType("main_content")) = 1

(* ======================================================================= *)
(* generateTextChunks on a list of pages (specification SpecChunks)        *)
(* ======================================================================= *)
\* Words of a page: "Hi" or a blank text, near the top or in the middle.
ChunkWords ==
  { [text |-> t, bbox |-> [x |-> 100, y |-> y, width |-> 100, height |-> 20], confidence |-> 90] :
      t \in {Txt_Hi, Txt_Blank}, y \in {100, 500} }

\* The block types of the Block type, one more type and a type that is the
\* name of an inherited object property.
BlockTypes ==
  {"paragraph", "heading", "list", "table", "image", "line", "footer", "header",
   "form_field", "signature", "logo", "caption", "footnote", "constructor"}

\* The blocks of a page from one or two words, all of one type.
PageOf(pageNumber, words, type) ==
  [pageNumber |-> pageNumber,
   blocks |-> LET blocks == BlocksOf(LinesOf(words), pageNumber)
              IN [i \in 1..Len(blocks) |-> [blocks[i] EXCEPT !.type = type]]]

ChunkPageWords == UNION { [1..n -> ChunkWords] : n \in 1..2 }

\* irPages: one page of any block type, or two pages of paragraphs.
ChunkInputs ==
  { <<PageOf(1, w, t)>> : w \in ChunkPageWords, t \in BlockTypes }
    \cup { <<PageOf(1, w1, "paragraph"), PageOf(2, w2, "paragraph")>> :
             w1 \in ChunkPageWords, w2 \in ChunkPageWords }

InitChunks ==
  /\ app = "main"
  /\ ViewerIdle
  /\ labPc = "irPages"
  /\ labIn \in ChunkInputs
  /\ labOut = <<>>

\* const textChunks = generateTextChunks(finalIRPages)
GenerateChunks ==
  /\ labPc = "irPages"
  /\ labOut' = generateTextChunks(labIn)
  /\ labPc' = "chunks"
  /\ UNCHANGED <<viewerVars, procVars, hist, labIn>>

NextChunks == GenerateChunks

SpecChunks == InitChunks /\ [][NextChunks]_vars

\* Words space-joined within a line, lines newline-joined.
JoinedText(block) ==
  JoinWith([l \in 1..Len(block.lines) |->
              JoinWith([k \in 1..Len(block.lines[l].words) |-> block.lines[l].words[k].text],
                       <<" ">>)],
           <<"\n">>)

\* The blocks with text, in page order and then block order, each with its page.
BlocksWithText(pagesIR) ==
  SelectSeq(Flatten([p \in 1..Len(pagesIR) |->
                       [i \in 1..Len(pagesIR[p].blocks) |->
                          [page |-> pagesIR[p], block |-> pagesIR[p].blocks[i]]]]),
            LAMBDA e : \E k \in 1..Len(JoinedText(e.block)) :
                         JoinedText(e.block)[k] \notin {" ", "\n"})

\* C24: one chunk per block with text, in page order then block order, each
\* with one grounding: the block box as l, t, r, b on page pageNumber - 1,
\* and the block's confidence.
C24_OneChunkPerBlockWithText ==
  labPc = "chunks" =>
    LET expected == BlocksWithText(labIn)
    IN /\ Len(labOut) = Len(expected)
       /\ \A k \in 1..Len(labOut) :
            LET block == expected[k].block
            IN /\ labOut[k].chunk_id = block.id
               /\ Len(labOut[k].grounding) = 1
               /\ labOut[k].grounding[1].page = expected[k].page.pageNumber - 1
               /\ labOut[k].grounding[1].box =
                    [l |-> block.bbox.x, t |-> block.bbox.y,
                     r |-> block.bbox.x + block.bbox.width,
                     b |-> block.bbox.y + block.bbox.height]
               /\ labOut[k].confidence = block.confidence

\* Two pages, the first with a block of blank text and a block with text, the
\* second with text: chunks of both pages, none for the blank block.
C24_Witness ==
  /\ labPc = "chunks"
  /\ Len(labIn) = 2
  /\ Len(labIn[1].blocks) = 2
  /\ Len(BlocksWithText(<<labIn[1]>>)) = 1
  /\ Len(labOut) >= 2
  /\ labOut[Len(labOut)].grounding[1].page = 1

ChunkTypeEnum ==
  {"text", "table", "figure", "title", "header", "footer", "list", "caption", "form_field"}

ChunkTypeTable ==
  [paragraph |-> "text", heading |-> "title", list |-> "list", table |-> "table",
   image |-> "figure", line |-> "text", footer |-> "footer", header |-> "header",
   form_field |-> "form_field", signature |-> "figure", logo |-> "figure",
   caption |-> "caption"]

SlantedWords ==
  << Box(Txt_Hi, 90, 100, 100, 50, 5), Box(Txt_Hi, 90, 200, 121, 50, 5),
     Box(Txt_Hi, 90, 300, 112, 50, 5), Box(Txt_Hi, 90, 400, 103, 50, 5),
     Box(Txt_Hi, 90, 500, 94, 50, 5) >>

LineWords == { SlantedWords[i] : i \in 1..5 } \cup { Box(Txt_World, 90, 100, 500, 50, 5) }

\* data.words: up to MaxWords of these words in any order, or the five words of
\* the slanted text in any order.
LineInputs ==
  UNION { [1..n -> LineWords] : n \in 1..MaxWords }
    \cup { [i \in 1..5 |-> SlantedWords[f[i]]] :
             f \in { g \in [1..5 -> 1..5] : \A i, j \in 1..5 : i # j => g[i] # g[j] } }

InitLines ==
  /\ app = "main"
  /\ ViewerIdle
  /\ labPc = "words"
  /\ labIn \in LineInputs
  /\ labOut = <<>>

SpecLines == InitLines /\ [][NextRegions]_vars

\* C26: lines and blocks carry their emission index as readingOrder, and a
\* line emitted earlier does not start below a line emitted later.
C26_ReadingOrderTopToBottom ==
  labPc = "page" =>
    /\ \A i \in 1..Len(labOut.lines) : labOut.lines[i].readingOrder = i - 1
    /\ \A i \in 1..Len(labOut.blocks) : labOut.blocks[i].readingOrder = i - 1
    /\ \A i, j \in 1..Len(labOut.lines) :
         i < j => labOut.lines[i].bbox.y <= labOut.lines[j].bbox.y

\* How often the word w occurs in the sequence ws.
Occurrences(ws, w) == Cardinality({ i \in 1..Len(ws) : ws[i] = w })

\* C30: every word of the page is in exactly one line and every line in
\* exactly one block, no line and no block is empty, and the counts add up.
C30_ClusteringConservesWords ==
  labPc = "page" =>
    LET lineWords == Flatten([l \in 1..Len(labOut.lines) |-> labOut.lines[l].words])
        blockLines == Flatten([b \in 1..Len(labOut.blocks) |-> labOut.blocks[b].lines])
    IN /\ Len(labOut.words) = Len(labIn)
       /\ \A i \in 1..Len(labOut.words) :
            Occurrences(lineWords, labOut.words[i]) = Occurrences(labOut.words, labOut.words[i])
       /\ Len(lineWords) = Len(labOut.words)
       /\ \A l \in 1..Len(labOut.lines) : Len(labOut.lines[l].words) > 0
       /\ \A i \in 1..Len(labOut.lines) :
            Occurrences(blockLines, labOut.lines[i]) = 1
       /\ Len(blockLines) = Len(labOut.lines)
       /\ \A b \in 1..Len(labOut.blocks) : Len(labOut.blocks[b].lines) > 0

\* A page of two blocks, the first of them with two lines.
C30_Witness ==
  /\ labPc = "page"
  /\ Len(labOut.blocks) = 2
  /\ Len(labOut.blocks[1].lines) = 2
  /\ Len(labOut.words) = 3

(* ======================================================================= *)
(* The viewer after a failure, and the page shown (specification Spec)     *)
(* ======================================================================= *)
\* C28: after handleError the viewer renders a control that leads to a new
\* file: the upload card, or the reset button (which brings the card back).
C28_NeverStuckAfterError ==
  hist.onErrorCalls > 0 => (CanChooseFile \/ ResetVisible)

\* C29: whenever the page list is not empty, currentPage is the number of one
\* of its pages and lies within 1..pages.length.
C29_CurrentPageInPages ==
  Len(pages) > 0 =>
    /\ 1 <= currentPage /\ currentPage <= Len(pages)
    /\ \E i \in 1..Len(pages) : pages[i].pageNumber = currentPage

\* The last page of a document of several pages is shown.
C29_Witness ==
  /\ Len(pages) > 1
  /\ currentPage = Len(pages)

====
